---- MODULE Spec2Model ----
(***************************************************************************)
(* Verification model of telegram-scout-bot: the message filtering and     *)
(* notification decision engine (server/keywords.js), the dedup and block  *)
(* gate of TelegramMonitor.handleNewMessage (server/monitor.js), the       *)
(* stores of server/database.js and the bot handlers of server/bot.js.     *)
(*                                                                         *)
(* Text is a sequence of characters; a character is a one-letter string.   *)
(* Cyrillic letters are written by name: "ru_a" .. "ru_ya", "ru_yo", and   *)
(* in capitals "RU_A" .. "RU_YA", "RU_YO".                                 *)
(***************************************************************************)
EXTENDS Integers, Sequences, FiniteSets, TLC

(***************************************************************************)
(* Characters                                                              *)
(***************************************************************************)
LatinLower ==
    {"a","b","c","d","e","f","g","h","i","j","k","l","m",
     "n","o","p","q","r","s","t","u","v","w","x","y","z"}

LatinUpper ==
    {"A","B","C","D","E","F","G","H","I","J","K","L","M",
     "N","O","P","Q","R","S","T","U","V","W","X","Y","Z"}

Digits == {"0","1","2","3","4","5","6","7","8","9"}

\* the letters of the range U+0430 .. U+044F (ru_yo, U+0451, is outside it)
CyrLower ==
    {"ru_a","ru_b","ru_v","ru_g","ru_d","ru_ye","ru_zh","ru_z","ru_i","ru_j",
     "ru_k","ru_l","ru_m","ru_n","ru_o","ru_p","ru_r","ru_s","ru_t","ru_u",
     "ru_f","ru_h","ru_ts","ru_ch","ru_sh","ru_sch","ru_hard","ru_y","ru_soft",
     "ru_e","ru_yu","ru_ya"}

CyrUpper ==
    {"RU_A","RU_B","RU_V","RU_G","RU_D","RU_YE","RU_ZH","RU_Z","RU_I","RU_J",
     "RU_K","RU_L","RU_M","RU_N","RU_O","RU_P","RU_R","RU_S","RU_T","RU_U",
     "RU_F","RU_H","RU_TS","RU_CH","RU_SH","RU_SCH","RU_HARD","RU_Y","RU_SOFT",
     "RU_E","RU_YU","RU_YA"}

\* white space as matched by \s and removed by String.prototype.trim
WhiteSpace == {" ", "\n", "\t"}

UpperToLower ==
    [c \in LatinUpper \cup CyrUpper \cup {"RU_YO"} |->
        CASE c = "A" -> "a" [] c = "B" -> "b" [] c = "C" -> "c" [] c = "D" -> "d"
          [] c = "E" -> "e" [] c = "F" -> "f" [] c = "G" -> "g" [] c = "H" -> "h"
          [] c = "I" -> "i" [] c = "J" -> "j" [] c = "K" -> "k" [] c = "L" -> "l"
          [] c = "M" -> "m" [] c = "N" -> "n" [] c = "O" -> "o" [] c = "P" -> "p"
          [] c = "Q" -> "q" [] c = "R" -> "r" [] c = "S" -> "s" [] c = "T" -> "t"
          [] c = "U" -> "u" [] c = "V" -> "v" [] c = "W" -> "w" [] c = "X" -> "x"
          [] c = "Y" -> "y" [] c = "Z" -> "z"
          [] c = "RU_A" -> "ru_a" [] c = "RU_B" -> "ru_b" [] c = "RU_V" -> "ru_v"
          [] c = "RU_G" -> "ru_g" [] c = "RU_D" -> "ru_d" [] c = "RU_YE" -> "ru_ye"
          [] c = "RU_ZH" -> "ru_zh" [] c = "RU_Z" -> "ru_z" [] c = "RU_I" -> "ru_i"
          [] c = "RU_J" -> "ru_j" [] c = "RU_K" -> "ru_k" [] c = "RU_L" -> "ru_l"
          [] c = "RU_M" -> "ru_m" [] c = "RU_N" -> "ru_n" [] c = "RU_O" -> "ru_o"
          [] c = "RU_P" -> "ru_p" [] c = "RU_R" -> "ru_r" [] c = "RU_S" -> "ru_s"
          [] c = "RU_T" -> "ru_t" [] c = "RU_U" -> "ru_u" [] c = "RU_F" -> "ru_f"
          [] c = "RU_H" -> "ru_h" [] c = "RU_TS" -> "ru_ts" [] c = "RU_CH" -> "ru_ch"
          [] c = "RU_SH" -> "ru_sh" [] c = "RU_SCH" -> "ru_sch"
          [] c = "RU_HARD" -> "ru_hard" [] c = "RU_Y" -> "ru_y"
          [] c = "RU_SOFT" -> "ru_soft" [] c = "RU_E" -> "ru_e"
          [] c = "RU_YU" -> "ru_yu" [] c = "RU_YA" -> "ru_ya"
          [] c = "RU_YO" -> "ru_yo"]

(***************************************************************************)
(* String primitives of the JavaScript runtime, on sequences of characters *)
(***************************************************************************)
\* String.prototype.toLowerCase
ToLowerCase(s) ==
    [i \in 1..Len(s) |-> IF s[i] \in DOMAIN UpperToLower THEN UpperToLower[s[i]] ELSE s[i]]

\* String.prototype.trim: what is left between the first and the last
\* character that is not white space
TrimLeft(s) ==
    IF \A i \in 1..Len(s) : s[i] \in WhiteSpace THEN <<>>
    ELSE SubSeq(s, CHOOSE i \in 1..Len(s) :
                       s[i] \notin WhiteSpace /\ \A j \in 1..(i - 1) : s[j] \in WhiteSpace,
                Len(s))

TrimRight(s) ==
    IF \A i \in 1..Len(s) : s[i] \in WhiteSpace THEN <<>>
    ELSE SubSeq(s, 1, CHOOSE i \in 1..Len(s) :
                          s[i] \notin WhiteSpace /\ \A j \in (i + 1)..Len(s) : s[j] \in WhiteSpace)

Trim(s) == TrimRight(TrimLeft(s))

\* String.prototype.startsWith / endsWith, for one character
StartsWith(s, c) == s # <<>> /\ s[1] = c

EndsWith(s, c) == s # <<>> /\ s[Len(s)] = c

\* String.prototype.includes
Includes(hay, needle) ==
    \E i \in 0..(Len(hay) - Len(needle)) :
        SubSeq(hay, i + 1, i + Len(needle)) = needle

\* the position of the k-th space of s; 0 for k = 0 and Len(s) + 1 when s
\* has fewer than k spaces
SpaceAt(s, k) ==
    IF k = 0 THEN 0
    ELSE IF Cardinality({j \in 1..Len(s) : s[j] = " "}) < k THEN Len(s) + 1
    ELSE CHOOSE i \in 1..Len(s) :
             s[i] = " " /\ Cardinality({j \in 1..i : s[j] = " "}) = k

\* String.prototype.split(' '): the pieces between single spaces
Split(s) ==
    [k \in 1..(Cardinality({j \in 1..Len(s) : s[j] = " "}) + 1) |->
        SubSeq(s, SpaceAt(s, k - 1) + 1, SpaceAt(s, k) - 1)]

\* Array.prototype.join(sep) for a separator given as a character sequence
RECURSIVE Join(_, _)
Join(ws, sep) ==
    IF ws = <<>> THEN <<>>
    ELSE IF Len(ws) = 1 THEN ws[1]
    ELSE ws[1] \o sep \o Join(Tail(ws), sep)

(***************************************************************************)
(* KeywordMatcher.normalizeText                                            *)
(***************************************************************************)
\* .replace(/ё/g, 'е'), applied after toLowerCase
FoldYo(s) == [i \in 1..Len(s) |-> IF s[i] = "ru_yo" THEN "ru_ye" ELSE s[i]]

\* the characters kept by /[^\wа-яa-z\s]/gi
IsKeptChar(c) ==
    c \in LatinLower \cup LatinUpper \cup Digits \cup {"_"}
          \cup CyrLower \cup CyrUpper \cup WhiteSpace

ReplaceOther(s) == [i \in 1..Len(s) |-> IF IsKeptChar(s[i]) THEN s[i] ELSE " "]

\* the second components of a sequence of pairs
Seconds(pairs) == [k \in 1..Len(pairs) |-> pairs[k][2]]

\* .replace(/\s+/g, ' '): a run of white space becomes one space, that is,
\* white space is kept, as a space, only where no white space precedes it
CollapseSpace(s) ==
    Seconds(SelectSeq([i \in 1..Len(s) |-> <<i, IF s[i] \in WhiteSpace THEN " " ELSE s[i]>>],
                      LAMBDA p : p[2] # " " \/ p[1] = 1 \/ s[p[1] - 1] \notin WhiteSpace))

\* a normalization that leaves the ends of the text as they are
NormalizeUntrimmed(text) == CollapseSpace(ReplaceOther(FoldYo(ToLowerCase(text))))

normalizeText(text) == Trim(CollapseSpace(ReplaceOther(FoldYo(ToLowerCase(text)))))

(***************************************************************************)
(* KeywordMatcher: constructor tables                                      *)
(***************************************************************************)
\* this.stopWords
stopWords ==
    {<<"ru_i">>,
     <<"ru_v">>,
     <<"ru_n","ru_a">>,
     <<"ru_s">>,
     <<"ru_p","ru_o">>,
     <<"ru_d","ru_l","ru_ya">>,
     <<"ru_o","ru_t">>,
     <<"ru_z","ru_a">>,
     <<"ru_k">>,
     <<"ru_i","ru_z">>,
     <<"ru_a">>,
     <<"ru_n","ru_o">>,
     <<"ru_i","ru_l","ru_i">>,
     <<"ru_ch","ru_t","ru_o">>,
     <<"ru_k","ru_a","ru_k">>,
     <<"ru_e","ru_t","ru_o">>,
     <<"ru_t","ru_a","ru_k">>,
     <<"ru_zh","ru_ye">>,
     <<"ru_n","ru_ye">>,
     <<"ru_d","ru_a">>,
     <<"ru_n","ru_ye","ru_t">>,
     <<"ru_b","ru_y">>,
     <<"ru_l","ru_i">>,
     <<"ru_t","ru_o">>,
     <<"ru_v","ru_o","ru_t">>,
     <<"ru_ye","ru_sch","ru_yo">>,
     <<"ru_u","ru_zh","ru_ye">>,
     <<"ru_t","ru_o","ru_zh","ru_ye">>,
     <<"ru_t","ru_o","ru_l","ru_soft","ru_k","ru_o">>,
     <<"ru_o","ru_ch","ru_ye","ru_n","ru_soft">>,
     <<"ru_m","ru_o","ru_zh","ru_ye","ru_t">>,
     <<"ru_b","ru_y","ru_t","ru_soft">>,
     <<"ru_p","ru_r","ru_i","ru_v","ru_ye","ru_t">>,
     <<"ru_z","ru_d","ru_r","ru_a","ru_v","ru_s","ru_t","ru_v","ru_u","ru_j","ru_t","ru_ye">>,
     <<"ru_s","ru_p","ru_a","ru_s","ru_i","ru_b","ru_o">>,
     <<"ru_p","ru_o","ru_zh","ru_a","ru_l","ru_u","ru_j","ru_s","ru_t","ru_a">>}

\* this.synonyms, in the insertion order Object.entries enumerates
synonyms ==
    <<[key |-> <<"ru_p","ru_r","ru_o","ru_g","ru_r","ru_a","ru_m","ru_m","ru_i","ru_s","ru_t">>,
       values |-> <<<<"ru_r","ru_a","ru_z","ru_r","ru_a","ru_b","ru_o","ru_t","ru_ch","ru_i","ru_k">>,
                    <<"ru_d","ru_ye","ru_v","ru_ye","ru_l","ru_o","ru_p","ru_ye","ru_r">>,
                    <<"d","e","v","e","l","o","p","e","r">>,
                    <<"ru_k","ru_o","ru_d","ru_ye","ru_r">>,
                    <<"ru_p","ru_r","ru_o","ru_g","ru_r","ru_a","ru_m","ru_m","ru_ye","ru_r">>,
                    <<"ru_p","ru_r","ru_o","ru_g","ru_ye","ru_r">>,
                    <<"ru_v","ru_a","ru_j","ru_b","ru_k","ru_o","ru_d","ru_ye","ru_r">>>>],
      [key |-> <<"ru_r","ru_a","ru_z","ru_r","ru_a","ru_b","ru_o","ru_t","ru_ch","ru_i","ru_k">>,
       values |-> <<<<"ru_p","ru_r","ru_o","ru_g","ru_r","ru_a","ru_m","ru_m","ru_i","ru_s","ru_t">>,
                    <<"ru_d","ru_ye","ru_v","ru_ye","ru_l","ru_o","ru_p","ru_ye","ru_r">>,
                    <<"d","e","v","e","l","o","p","e","r">>,
                    <<"ru_k","ru_o","ru_d","ru_ye","ru_r">>,
                    <<"ru_p","ru_r","ru_o","ru_g","ru_r","ru_a","ru_m","ru_m","ru_ye","ru_r">>,
                    <<"ru_p","ru_r","ru_o","ru_g","ru_ye","ru_r">>,
                    <<"ru_v","ru_a","ru_j","ru_b","ru_k","ru_o","ru_d","ru_ye","ru_r">>>>],
      [key |-> <<"ru_f","ru_r","ru_o","ru_n","ru_t","ru_ye","ru_n","ru_d">>,
       values |-> <<<<"f","r","o","n","t","e","n","d">>,
                    <<"ru_f","ru_r","ru_o","ru_n","ru_t">>,
                    <<"ru_v","ru_ye","ru_r","ru_s","ru_t","ru_a","ru_l","ru_soft","ru_sch","ru_i","ru_k">>,
                    <<"r","e","a","c","t">>,
                    <<"v","u","e">>,
                    <<"a","n","g","u","l","a","r">>>>],
      [key |-> <<"ru_b","ru_e","ru_k","ru_ye","ru_n","ru_d">>,
       values |-> <<<<"b","a","c","k","e","n","d">>,
                    <<"ru_b","ru_e","ru_k">>,
                    <<"ru_s","ru_ye","ru_r","ru_v","ru_ye","ru_r","ru_n","ru_y","ru_j">>>>],
      [key |-> <<"ru_f","ru_u","ru_l","ru_s","ru_t","ru_ye","ru_k">>,
       values |-> <<<<"f","u","l","l","s","t","a","c","k">>,
                    <<"f","u","l","l","-","s","t","a","c","k">>,
                    <<"ru_f","ru_u","ru_l","ru_l","ru_s","ru_t","ru_ye","ru_k">>>>],
      [key |-> <<"ru_d","ru_i","ru_z","ru_a","ru_j","ru_n","ru_ye","ru_r">>,
       values |-> <<<<"d","e","s","i","g","n","e","r">>,
                    <<"ru_d","ru_i","ru_z","ru_a","ru_j","ru_n">>,
                    <<"u","i">>,
                    <<"u","x">>,
                    <<"ru_u","ru_i","ru_d","ru_i","ru_z","ru_a","ru_j","ru_n","ru_ye","ru_r">>,
                    <<"ru_yu","ru_i","ru_d","ru_i","ru_z","ru_a","ru_j","ru_n","ru_ye","ru_r">>>>],
      [key |-> <<"ru_g","ru_r","ru_a","ru_f","ru_i","ru_ch","ru_ye","ru_s","ru_k","ru_i","ru_j">>,
       values |-> <<<<"g","r","a","p","h","i","c">>,
                    <<"ru_g","ru_r","ru_a","ru_f","ru_i","ru_k","ru_a">>>>],
      [key |-> <<"ru_i","ru_sch","ru_u">>,
       values |-> <<<<"ru_n","ru_u","ru_zh","ru_ye","ru_n">>,
                    <<"ru_n","ru_u","ru_zh","ru_n","ru_a">>,
                    <<"ru_n","ru_u","ru_zh","ru_n","ru_o">>,
                    <<"ru_t","ru_r","ru_ye","ru_b","ru_u","ru_ye","ru_t","ru_s","ru_ya">>,
                    <<"l","o","o","k","i","n","g">>>>],
      [key |-> <<"ru_p","ru_o","ru_s","ru_o","ru_v","ru_ye","ru_t","ru_u","ru_j","ru_t","ru_ye">>,
       values |-> <<<<"ru_p","ru_o","ru_r","ru_ye","ru_k","ru_o","ru_m","ru_ye","ru_n","ru_d","ru_u","ru_j","ru_t","ru_ye">>,
                    <<"ru_p","ru_o","ru_d","ru_s","ru_k","ru_a","ru_zh","ru_i","ru_t","ru_ye">>,
                    <<"r","e","c","o","m","m","e","n","d">>,
                    <<"ru_p","ru_o","ru_s","ru_o","ru_v","ru_ye","ru_t","ru_o","ru_v","ru_a","ru_t","ru_soft">>>>],
      [key |-> <<"ru_m","ru_a","ru_r","ru_k","ru_ye","ru_t","ru_o","ru_l","ru_o","ru_g">>,
       values |-> <<<<"m","a","r","k","e","t","e","r">>,
                    <<"ru_m","ru_a","ru_r","ru_k","ru_ye","ru_t","ru_i","ru_n","ru_g">>,
                    <<"s","m","m">>,
                    <<"ru_s","ru_m","ru_m">>,
                    <<"ru_t","ru_a","ru_r","ru_g","ru_ye","ru_t","ru_o","ru_l","ru_o","ru_g">>>>],
      [key |-> <<"ru_m","ru_ye","ru_n","ru_ye","ru_d","ru_zh","ru_ye","ru_r">>,
       values |-> <<<<"m","a","n","a","g","e","r">>,
                    <<"p","m">>,
                    <<"ru_p","ru_m">>,
                    <<"ru_p","ru_r","ru_o","ru_d","ru_zh","ru_ye","ru_k","ru_t">>>>]>>

\* the literal array of suffixes, before .sort
suffixList ==
    <<<<"ru_a","ru_m","ru_i">>,
      <<"ru_ya","ru_m","ru_i">>,
      <<"ru_o","ru_m","ru_u">>,
      <<"ru_ye","ru_m","ru_u">>,
      <<"ru_o","ru_g","ru_o">>,
      <<"ru_ye","ru_g","ru_o">>,
      <<"ru_i","ru_t","ru_soft">>,
      <<"ru_a","ru_t","ru_soft">>,
      <<"ru_ye","ru_t","ru_soft">>,
      <<"ru_o","ru_v">>,
      <<"ru_ye","ru_v">>,
      <<"ru_ye","ru_j">>,
      <<"ru_i","ru_j">>,
      <<"ru_y","ru_j">>,
      <<"ru_o","ru_j">>,
      <<"ru_a","ru_ya">>,
      <<"ru_ya","ru_ya">>,
      <<"ru_o","ru_ye">>,
      <<"ru_ye","ru_ye">>,
      <<"ru_a","ru_m">>,
      <<"ru_ya","ru_m">>,
      <<"ru_a","ru_h">>,
      <<"ru_ya","ru_h">>,
      <<"ru_o","ru_m">>,
      <<"ru_ye","ru_m">>,
      <<"ru_i","ru_m">>,
      <<"ru_y","ru_m">>,
      <<"ru_a">>,
      <<"ru_ya">>,
      <<"ru_o">>,
      <<"ru_ye">>,
      <<"ru_i">>,
      <<"ru_y">>,
      <<"ru_u">>,
      <<"ru_yu">>>>

\* Array.prototype.sort((a, b) => b.length - a.length): a stable sort, longest first
RECURSIVE SortByLengthDesc(_, _)
SortByLengthDesc(ws, len) ==
    IF len = 0 THEN <<>>
    ELSE SelectSeq(ws, LAMBDA x : Len(x) = len) \o SortByLengthDesc(ws, len - 1)

MaxLenOf(ws) ==
    IF ws = <<>> THEN 0
    ELSE CHOOSE n \in {Len(ws[i]) : i \in 1..Len(ws)} :
             \A i \in 1..Len(ws) : Len(ws[i]) <= n

suffixes == SortByLengthDesc(suffixList, MaxLenOf(suffixList))

(***************************************************************************)
(* Small helpers for arrays                                                *)
(***************************************************************************)
\* Array.prototype.findIndex(y => y === x), 1-based; 0 when x is not in ws
IndexOf(ws, x) ==
    IF \E i \in 1..Len(ws) : ws[i] = x
    THEN CHOOSE i \in 1..Len(ws) : ws[i] = x /\ \A j \in 1..(i - 1) : ws[j] # x
    ELSE 0

\* Array.prototype.map: the array whose elements a function gives, with each
\* element computed once
Map(f) == SubSeq(f, 1, Len(f))

EndsWithSeq(s, suf) ==
    Len(suf) <= Len(s) /\ SubSeq(s, Len(s) - Len(suf) + 1, Len(s)) = suf

\* [...new Set(ws)]: the first occurrence of each element, in order
Dedup(ws) ==
    Seconds(SelectSeq([i \in 1..Len(ws) |-> <<i, ws[i]>>],
                      LAMBDA p : \A j \in 1..(p[1] - 1) : ws[j] # p[2]))

(***************************************************************************)
(* KeywordMatcher.stem                                                     *)
(***************************************************************************)
MinStemLen == 2

MinWordLenForStem == 4

\* the first element of a list; the empty sequence when the list is empty
FirstOrEmpty(xs) == IF xs = <<>> THEN <<>> ELSE Head(xs)

\* the last suffix of the list that the word ends with and that leaves at
\* least MinStemLen characters
LastSuffix(word, sufs) ==
    FirstOrEmpty(SelectSeq([i \in 1..Len(sufs) |-> sufs[Len(sufs) + 1 - i]], LAMBDA suffix :
                     EndsWithSeq(word, suffix) /\ Len(word) - Len(suffix) >= MinStemLen))

\* the first suffix of the list that the word ends with and that leaves at
\* least MinStemLen characters; the empty sequence when there is none
FirstSuffix(word, sufs) ==
    FirstOrEmpty(SelectSeq(sufs, LAMBDA suffix :
                     EndsWithSeq(word, suffix) /\ Len(word) - Len(suffix) >= MinStemLen))

stem(word) ==
    IF Len(word) < MinWordLenForStem THEN word
    ELSE SubSeq(word, 1, Len(word) - Len(FirstSuffix(word, suffixes)))

(***************************************************************************)
(* KeywordMatcher.levenshteinDistance                                      *)
(***************************************************************************)
Min3(a, b, c) == IF a <= b /\ a <= c THEN a ELSE IF b <= c THEN b ELSE c

\* The inner loop over j.  A row of the table is the sequence of its n + 1
\* cells, so dp[i][j] is row[j + 1]; cur holds dp[i][0 .. j-1] and cell j is
\* appended to it.
RECURSIVE FillRow(_, _, _, _, _)
FillRow(prev, cur, i, str1, str2) ==
    IF Len(cur) > Len(str2) THEN cur
    ELSE FillRow(prev,
                 Append(cur, IF str1[i] = str2[Len(cur)]
                             THEN prev[Len(cur)]
                             ELSE 1 + Min3(prev[Len(cur) + 1], cur[Len(cur)], prev[Len(cur)])),
                 i, str1, str2)

\* the loop over the rows: row i is filled from the complete row i - 1
RECURSIVE FillTable(_, _, _, _)
FillTable(prev, i, str1, str2) ==
    IF Len(prev) = Len(str2) + 1 /\ i <= Len(str1)
    THEN FillTable(FillRow(prev, <<i>>, i, str1, str2), i + 1, str1, str2)
    ELSE prev

levenshteinDistance(str1, str2) ==
    FillTable(Map([k \in 1..(Len(str2) + 1) |-> k - 1]), 1, str1, str2)[Len(str2) + 1]

(***************************************************************************)
(* KeywordMatcher.fuzzyMatch.  A threshold is given in hundredths:         *)
(* 1 - distance / maxLen >= threshold / 100.                               *)
(***************************************************************************)
DefaultThreshold == 75

Max2(a, b) == IF a >= b THEN a ELSE b

\* a comparison that looks for the second stem in the first only
FuzzyByStemsOneWay(w1, w2, stem1, stem2, threshold) ==
    IF stem1 = stem2 THEN TRUE
    ELSE IF Includes(stem1, stem2) THEN TRUE
    ELSE IF Max2(Len(w1), Len(w2)) < 3 THEN w1 = w2
    ELSE 100 * (Max2(Len(w1), Len(w2)) - levenshteinDistance(w1, w2))
             >= threshold * Max2(Len(w1), Len(w2))

\* from const stem1 on
FuzzyByStems(w1, w2, stem1, stem2, threshold) ==
    IF stem1 = stem2 THEN TRUE
    ELSE IF Includes(stem1, stem2) \/ Includes(stem2, stem1) THEN TRUE
    ELSE IF Max2(Len(w1), Len(w2)) < 3 THEN w1 = w2
    ELSE 100 * (Max2(Len(w1), Len(w2)) - levenshteinDistance(w1, w2))
             >= threshold * Max2(Len(w1), Len(w2))

\* the comparison of the two normalized words
FuzzyNormalized(w1, w2, threshold) ==
    IF w1 = w2 THEN TRUE
    ELSE IF Includes(w1, w2) \/ Includes(w2, w1) THEN TRUE
    ELSE FuzzyByStems(w1, w2, stem(w1), stem(w2), threshold)

fuzzyMatch(word1, word2, threshold) ==
    FuzzyNormalized(normalizeText(word1), normalizeText(word2), threshold)

(***************************************************************************)
(* KeywordMatcher.getSynonyms: the Set, as the sequence of its insertions  *)
(***************************************************************************)
\* a normalized form and its stem
WithStem(norm) == <<norm, stem(norm)>>

\* the normalized values of an entry, each followed by its stem
RECURSIVE ValuesClass(_)
ValuesClass(vals) ==
    IF vals = <<>> THEN <<>>
    ELSE WithStem(normalizeText(Head(vals))) \o ValuesClass(Tail(vals))

\* what one dictionary entry adds: key, its stem, every value and its stem
ClassOf(entry) == WithStem(normalizeText(entry.key)) \o ValuesClass(entry.values)

\* this.fuzzyMatch(normalized, keyNorm) || this.fuzzyMatch(stemmed, keyStem)
FormHit(formNorm, normalized, stemmed) ==
    \/ fuzzyMatch(normalized, formNorm, DefaultThreshold)
    \/ fuzzyMatch(stemmed, stem(formNorm), DefaultThreshold)

\* the word is close to the key of the entry or to one of its values
EntryHit(entry, normalized, stemmed) ==
    \E form \in {entry.key} \cup {entry.values[i] : i \in 1..Len(entry.values)} :
        FormHit(normalizeText(form), normalized, stemmed)

\* the concatenation of what each of the entries adds
RECURSIVE Classes(_)
Classes(entries) ==
    IF entries = <<>> THEN <<>> ELSE ClassOf(Head(entries)) \o Classes(Tail(entries))

\* the loop over Object.entries(this.synonyms): the entries that add
\* something, in the order of the dictionary
HitEntries(normalized, stemmed) ==
    SelectSeq(synonyms, LAMBDA entry : EntryHit(entry, normalized, stemmed))

\* from const synonyms = new Set([normalized, stemmed]) on
SynonymsOfStemmed(normalized, stemmed) ==
    Dedup(<<normalized, stemmed>> \o Classes(HitEntries(normalized, stemmed)))

SynonymsOfNormalized(normalized) == SynonymsOfStemmed(normalized, stem(normalized))

getSynonyms(word) == SynonymsOfNormalized(normalizeText(word))

(***************************************************************************)
(* KeywordMatcher.getNgrams                                                *)
(***************************************************************************)
\* the n-grams of a list of words
NgramsOfWords(words, n) ==
    [i \in 1..Max2(Len(words) - n + 1, 0) |-> Join(SubSeq(words, i, i + n - 1), <<" ">>)]

getNgrams(text, n) ==
    NgramsOfWords(SelectSeq(Split(normalizeText(text)), LAMBDA w : Len(w) > 1), n)

(***************************************************************************)
(* KeywordMatcher.parseKeywordMode                                         *)
(***************************************************************************)
\* String.prototype.slice(1, -1)
Slice1(s) == IF Len(s) < 2 THEN <<>> ELSE SubSeq(s, 2, Len(s) - 1)

\* the mode of the trimmed keyword
ModeOfTrimmed(trimmed) ==
    IF StartsWith(trimmed, "[") /\ EndsWith(trimmed, "]")
    THEN [isExact |-> FALSE, isAllRequired |-> TRUE, cleanKeyword |-> Slice1(trimmed)]
    ELSE IF \/ StartsWith(trimmed, "\"") /\ EndsWith(trimmed, "\"")
            \/ StartsWith(trimmed, "laquo") /\ EndsWith(trimmed, "raquo")
            \/ StartsWith(trimmed, "'") /\ EndsWith(trimmed, "'")
    THEN [isExact |-> TRUE, isAllRequired |-> FALSE, cleanKeyword |-> Slice1(trimmed)]
    ELSE [isExact |-> FALSE, isAllRequired |-> FALSE, cleanKeyword |-> trimmed]

parseKeywordMode(keyword) == ModeOfTrimmed(Trim(keyword))

(***************************************************************************)
(* KeywordMatcher.findWordInText                                           *)
(***************************************************************************)
MinStemMatchLen == 4

MinSynonymLen == 4

MinFuzzyLen == 6

WordFuzzyThreshold == 80

NgramThreshold == 75

NotFound == [found |-> FALSE, matchType |-> "", matchedWord |-> <<>>]

Found(type, word) == [found |-> TRUE, matchType |-> type, matchedWord |-> word]

\* the first synonym of the list that may be compared (long enough, with a
\* long enough stem) and whose stem is the stem of a token of the text; the
\* empty sequence when there is none
SynonymInText(syns, textStems) ==
    FirstOrEmpty(SelectSeq(syns, LAMBDA syn :
                     /\ Len(syn) >= MinSynonymLen
                     /\ Len(stem(syn)) >= MinStemMatchLen
                     /\ IndexOf(textStems, stem(syn)) # 0))

\* the first token of the text that is long enough and fuzzy-matches the
\* word; the empty sequence when there is none
FuzzyInText(word, textWords) ==
    FirstOrEmpty(SelectSeq(textWords, LAMBDA textWord :
                     /\ Len(textWord) >= MinFuzzyLen
                     /\ fuzzyMatch(textWord, word, WordFuzzyThreshold)))

\* 4. fuzzy matching, given the token found
FoundFuzzy(wordNorm, textWord) ==
    IF textWord # <<>>
    THEN Found("fuzzy", textWord \o <<" ","approx"," ">> \o wordNorm)
    ELSE NotFound

FindByFuzzy(wordNorm, textWords) ==
    IF Len(wordNorm) >= MinFuzzyLen
    THEN FoundFuzzy(wordNorm, FuzzyInText(wordNorm, textWords))
    ELSE NotFound

\* 3. synonyms, given the synonym found
FoundSynonym(wordNorm, textWords, textStems, syn) ==
    IF syn # <<>>
    THEN Found("synonym", textWords[IndexOf(textStems, stem(syn))]
                              \o <<" ","arrow"," ">> \o syn)
    ELSE FindByFuzzy(wordNorm, textWords)

FindBySynonym(wordNorm, textWords, textStems) ==
    IF Len(wordNorm) >= MinSynonymLen
    THEN FoundSynonym(wordNorm, textWords, textStems,
                      SynonymInText(getSynonyms(wordNorm), textStems))
    ELSE FindByFuzzy(wordNorm, textWords)

\* 2. the stem
FindByStem(wordNorm, wordStem, textWords, textStems) ==
    IF Len(wordStem) >= MinStemMatchLen /\ IndexOf(textStems, wordStem) # 0
    THEN Found("stem", textWords[IndexOf(textStems, wordStem)])
    ELSE FindBySynonym(wordNorm, textWords, textStems)

\* 1. the word itself
FindNormalized(wordNorm, textWords, textStems) ==
    IF IndexOf(textWords, wordNorm) # 0
    THEN Found("exact", textWords[IndexOf(textWords, wordNorm)])
    ELSE FindByStem(wordNorm, stem(wordNorm), textWords, textStems)

findWordInText(word, textWords, textStems) ==
    FindNormalized(normalizeText(word), textWords, textStems)

(***************************************************************************)
(* KeywordMatcher.match, for one keyword of the list                       *)
(***************************************************************************)
\* Array.prototype.join('+') on match type names
RECURSIVE JoinTypes(_)
JoinTypes(ts) ==
    IF ts = <<>> THEN ""
    ELSE IF Len(ts) = 1 THEN ts[1]
    ELSE ts[1] \o "+" \o JoinTypes(Tail(ts))

\* if (!matched) { ... }: a later strategy runs only when no earlier one hit
OrElse(first, second) == IF first.found THEN first ELSE second

\* a quoted branch that looks for the phrase as it is written
MatchExactAsWritten(cleanKeyword, normalizedText) ==
    IF Includes(normalizedText, cleanKeyword)
    THEN Found("exact (strict)", cleanKeyword)
    ELSE NotFound

\* the branch for "quoted" keywords
MatchExact(cleanKeyword, normalizedText) ==
    IF Includes(normalizedText, normalizeText(cleanKeyword))
    THEN Found("exact (strict)", cleanKeyword)
    ELSE NotFound

\* the outcome of the [bracketed] branch, given what findWordInText returned
\* for each part
AllRequiredOf(results) ==
    IF \A i \in 1..Len(results) : results[i].found
    THEN Found("all-required ("
                   \o JoinTypes(Dedup([i \in 1..Len(results) |-> results[i].matchType]))
                   \o ")",
               Join([i \in 1..Len(results) |-> results[i].matchedWord], <<" ","+"," ">>))
    ELSE NotFound

\* the branch for [bracketed] keywords of more than one part
MatchAllRequired(keywordParts, textWords, textStems) ==
    AllRequiredOf(Map([i \in 1..Len(keywordParts) |->
                          findWordInText(keywordParts[i], textWords, textStems)]))

\* the first part of any length whose stem is the stem of a token
StemPartOfAnyLength(parts, textStems) ==
    FirstOrEmpty(SelectSeq(parts, LAMBDA part : IndexOf(textStems, stem(part)) # 0))

\* the first part that is long enough, has a long enough stem, and whose
\* stem is the stem of a token of the text; the empty sequence when none
StemPart(parts, textStems) ==
    FirstOrEmpty(SelectSeq(parts, LAMBDA part :
                     /\ Len(part) >= MinStemMatchLen
                     /\ Len(stem(part)) >= MinStemMatchLen
                     /\ IndexOf(textStems, stem(part)) # 0))

StemOfPart(part, textWords, textStems) ==
    IF part = <<>> THEN NotFound
    ELSE Found("stem", textWords[IndexOf(textStems, stem(part))]
                           \o <<" ","(","s","t","e","m",":"," ">> \o stem(part) \o <<")">>)

\* step 2 of the smart mode: equal stems
MatchStem(keywordParts, textWords, textStems) ==
    StemOfPart(StemPart(keywordParts, textStems), textWords, textStems)

\* the first part that is long enough and has a synonym in the text; the
\* empty sequence when none
SynonymPart(parts, textStems) ==
    FirstOrEmpty(SelectSeq(parts, LAMBDA part :
                     /\ Len(part) >= MinSynonymLen
                     /\ SynonymInText(getSynonyms(part), textStems) # <<>>))

FoundPartSynonym(part, syn, textWords, textStems) ==
    Found("synonym",
          textWords[IndexOf(textStems, stem(syn))] \o <<" ","arrow"," ">> \o syn
              \o <<" ","(","s","y","n","o","n","y","m"," ","o","f"," ">>
              \o part \o <<")">>)

SynonymOfPart(part, textWords, textStems) ==
    IF part = <<>> THEN NotFound
    ELSE FoundPartSynonym(part, SynonymInText(getSynonyms(part), textStems),
                          textWords, textStems)

\* step 3 of the smart mode: the stem of a synonym
MatchSynonym(keywordParts, textWords, textStems) ==
    SynonymOfPart(SynonymPart(keywordParts, textStems), textWords, textStems)

\* the first part that is long enough and close to a long token of the text
FuzzyPart(parts, textWords) ==
    FirstOrEmpty(SelectSeq(parts, LAMBDA part :
                     /\ Len(part) >= MinFuzzyLen
                     /\ FuzzyInText(part, textWords) # <<>>))

FuzzyOfPart(part, textWords) ==
    IF part = <<>> THEN NotFound ELSE FoundFuzzy(part, FuzzyInText(part, textWords))

\* step 4 of the smart mode: a long part close to a long token
MatchFuzzy(keywordParts, textWords) ==
    FuzzyOfPart(FuzzyPart(keywordParts, textWords), textWords)

\* the first n-gram that is close to the joined parts; the empty sequence
\* when there is none
NgramInText(textNgrams, keywordNgram) ==
    FirstOrEmpty(SelectSeq(textNgrams, LAMBDA ngram :
                     fuzzyMatch(ngram, keywordNgram, NgramThreshold)))

FoundNgram(ngram, keywordNgram) ==
    IF ngram # <<>>
    THEN Found("ngram", ngram \o <<" ","approx"," ">> \o keywordNgram)
    ELSE NotFound

\* step 5 of the smart mode: n-grams of the text against the joined parts
MatchNgram(keywordParts, normalizedText) ==
    IF Len(keywordParts) > 1
    THEN FoundNgram(NgramInText(getNgrams(normalizedText, Len(keywordParts)),
                                Join(keywordParts, <<" ">>)),
                    Join(keywordParts, <<" ">>))
    ELSE NotFound

\* the smart mode with the fuzzy step before the stems and the synonyms
SmartFuzzyFirst(keyword, cleanKeyword, keywordParts, normalizedText, textWords, textStems) ==
    IF Includes(normalizedText, normalizeText(cleanKeyword))
    THEN Found("exact", keyword)
    ELSE OrElse(MatchFuzzy(keywordParts, textWords),
         OrElse(MatchStem(keywordParts, textWords, textStems),
         OrElse(MatchSynonym(keywordParts, textWords, textStems),
                MatchNgram(keywordParts, normalizedText))))

\* steps 1 to 5 of the smart mode
MatchSmart(keyword, cleanKeyword, keywordParts, normalizedText, textWords, textStems) ==
    IF Includes(normalizedText, normalizeText(cleanKeyword))
    THEN Found("exact", keyword)
    ELSE OrElse(MatchStem(keywordParts, textWords, textStems),
         OrElse(MatchSynonym(keywordParts, textWords, textStems),
         OrElse(MatchFuzzy(keywordParts, textWords),
                MatchNgram(keywordParts, normalizedText))))

\* the three branches of the loop body, given the parsed mode and the parts
MatchParts(keyword, mode, keywordParts, normalizedText, textWords, textStems) ==
    IF mode.isExact THEN MatchExact(mode.cleanKeyword, normalizedText)
    ELSE IF mode.isAllRequired /\ Len(keywordParts) > 1
         THEN MatchAllRequired(keywordParts, textWords, textStems)
    ELSE MatchSmart(keyword, mode.cleanKeyword, keywordParts,
                    normalizedText, textWords, textStems)

\* the body of the loop over keywords
MatchKeyword(keyword, normalizedText, textWords, textStems) ==
    MatchParts(keyword, parseKeywordMode(keyword),
               SelectSeq(Split(normalizeText(parseKeywordMode(keyword).cleanKeyword)),
                         LAMBDA w : Len(w) > 1),
               normalizedText, textWords, textStems)

(***************************************************************************)
(* KeywordMatcher.match and KeywordMatcher.analyze                         *)
(***************************************************************************)
\* a text argument that is undefined or null
Absent == <<"undefined">>

\* a keyword list that is undefined or null
AbsentList == <<<<"undefined">>>>

\* the TypeError a method call on an absent value throws
TypeError == [threw |-> "TypeError"]

Unmatched == [matched |-> FALSE, matchedKeywords |-> <<>>, matchDetails |-> <<>>]

\* the returned object, given the indices of the keywords that matched
ResultOfHits(keywords, res, hits) ==
    [matched |-> Len(hits) > 0,
     matchedKeywords |-> Dedup([j \in 1..Len(hits) |-> keywords[hits[j]]]),
     matchDetails |-> [j \in 1..Len(hits) |->
                          [keyword |-> keywords[hits[j]],
                           matchType |-> res[hits[j]].matchType,
                           matchedWord |-> res[hits[j]].matchedWord]]]

\* the returned object, given the outcome of the loop body for each keyword
ResultOf(keywords, res) ==
    ResultOfHits(keywords, res,
                 SelectSeq([i \in 1..Len(keywords) |-> i], LAMBDA i : res[i].found))

MatchStems(normalizedText, textWords, textStems, keywords) ==
    ResultOf(keywords,
             Map([i \in 1..Len(keywords) |->
                     MatchKeyword(keywords[i], normalizedText, textWords, textStems)]))

MatchWords(normalizedText, textWords, keywords) ==
    MatchStems(normalizedText, textWords,
               Map([i \in 1..Len(textWords) |-> stem(textWords[i])]), keywords)

MatchNormalized(normalizedText, keywords) ==
    MatchWords(normalizedText,
               SelectSeq(Split(normalizedText), LAMBDA w : Len(w) > 1 /\ w \notin stopWords),
               keywords)

match(text, keywords) ==
    IF text = Absent \/ text = <<>> \/ keywords = AbsentList \/ keywords = <<>>
    THEN Unmatched
    ELSE MatchNormalized(normalizeText(text), keywords)

\* matchPatterns for the pattern list handleNewMessage passes: analyze is
\* called with { keywords } only, so patterns is [] and nothing is pushed;
\* the text is normalized before anything else
matchPatterns(text) ==
    IF text = Absent THEN TypeError
    ELSE [matched |-> FALSE, matchedPatterns |-> <<>>]

\* the returned object, given the two results
AnalyzeResults(keywordResult, patternResult) ==
    IF patternResult = TypeError THEN TypeError
    ELSE [matched |-> keywordResult.matched \/ patternResult.matched,
          matchedKeywords |-> keywordResult.matchedKeywords,
          matchDetails |-> keywordResult.matchDetails]

analyze(text, keywords) == AnalyzeResults(match(text, keywords), matchPatterns(text))

(***************************************************************************)
(* formatNotification, escapeMarkdown and truncateText (keywords.js).  The *)
(* notification is built as a list of pieces, each with the place its text *)
(* comes from ("template" or the name of a field of the data); the string  *)
(* returned is the concatenation of the texts of the pieces.  The fixed    *)
(* words of the template are written as one element each, and the grave    *)
(* accent as the element "backtick".                                       *)
(***************************************************************************)
MarkdownChars == {"*", "_", "[", "]", "backtick"}

\* the five replace calls: none of them adds a character that a later one
\* replaces, so each of the five characters gets one backslash before it
EscapeAll(text) ==
    SelectSeq([k \in 1..(2 * Len(text)) |->
                  IF k % 2 = 0 THEN text[k \div 2]
                  ELSE IF text[(k + 1) \div 2] \in MarkdownChars THEN "\\" ELSE ""],
              LAMBDA c : c # "")

escapeMarkdown(text) == IF text = Absent \/ text = <<>> THEN <<>> ELSE EscapeAll(text)

truncateText(text, maxLength) ==
    IF text = Absent \/ text = <<>> THEN <<>>
    ELSE IF Len(text) <= maxLength THEN text
    ELSE SubSeq(text, 1, maxLength - 3) \o <<".", ".", ".">>

MessageLimit == 500

Piece(from, text) == [from |-> from, text |-> text]

\* the link to the message, for a chat id given as its decimal digits
MessageLinkOf(chatId, messageId) ==
    <<"https://t.me/c/">>
        \o (IF Len(chatId) >= 4 /\ SubSeq(chatId, 1, 4) = <<"-", "1", "0", "0">>
            THEN SubSeq(chatId, 5, Len(chatId))
            ELSE IF StartsWith(chatId, "-") THEN Tail(chatId) ELSE chatId)
        \o <<"/">> \o messageId

\* usernameDisplay
UsernamePieces(username) ==
    IF username = Absent \/ username = <<>> THEN <<Piece("template", <<"net">>)>>
    ELSE <<Piece("template", <<"@">>), Piece("username", username)>>

\* one element of detailsStr
DetailPieces(d) ==
    <<Piece("template", <<"\"">>), Piece("keyword", d.keyword),
      Piece("template", <<"\"", " ", "(">>), Piece("matchType", <<d.matchType>>),
      Piece("template", <<")">>)>>
    \o (IF d.matchedWord # <<>>
        THEN <<Piece("template", <<"\n", "   ", "Naydeno: ", "\"">>),
               Piece("matchedWord", d.matchedWord),
               Piece("template", <<"\"">>)>>
        ELSE <<>>)

\* Array.prototype.join for lists of pieces
RECURSIVE JoinPieces(_, _)
JoinPieces(lists, sep) ==
    IF lists = <<>> THEN <<>>
    ELSE IF Len(lists) = 1 THEN lists[1]
    ELSE lists[1] \o <<Piece("template", sep)>> \o JoinPieces(Tail(lists), sep)

\* keywordsDisplay
KeywordsPieces(matchedKeywords, matchDetails) ==
    IF Len(matchedKeywords) = 0 THEN <<>>
    ELSE IF Len(matchDetails) > 0
    THEN <<Piece("template", <<"\n", "(key) ", "*", "Sovpadeniya:", "*", "\n">>)>>
         \o JoinPieces([i \in 1..Len(matchDetails) |-> DetailPieces(matchDetails[i])],
                       <<"\n">>)
    ELSE <<Piece("template", <<"\n", "(key) ", "*", "Klyuchevye slova:", "*", " ">>)>>
         \o JoinPieces([i \in 1..Len(matchedKeywords) |->
                           <<Piece("keyword", matchedKeywords[i])>>], <<",", " ">>)

\* the template literal of the return statement
NotificationPieces(data) ==
    <<Piece("template", <<"(target) ", "*", "Naydeno sovpadenie!", "*", "\n">>)>>
    \o KeywordsPieces(data.matchedKeywords, data.matchDetails)
    \o <<Piece("template", <<"\n", "\n", "(person) ", "*">>),
         Piece("firstName",
               escapeMarkdown(IF data.firstName = Absent THEN <<"Neizvestno">>
                              ELSE data.firstName)),
         Piece("template", <<"*", "\n", "Username: ">>)>>
    \o UsernamePieces(data.username)
    \o <<Piece("template", <<"\n", "User ID: ", "backtick">>),
         Piece("userId", data.userId),
         Piece("template", <<"backtick", "\n", "\n", "(speech) ", "*", "Soobschenie:", "*", "\n", "\"">>),
         Piece("messageText", escapeMarkdown(truncateText(data.messageText, MessageLimit))),
         Piece("template", <<"\"", "\n", "\n", "(pin) ", "*", "Chat:", "*", " ", "[">>),
         Piece("chatTitle", escapeMarkdown(data.chatTitle)),
         Piece("template", <<"]", "(">>),
         Piece("messageLink", MessageLinkOf(data.chatId, data.messageId)),
         Piece("template", <<")">>)>>

\* the texts of the pieces, one after the other
RECURSIVE TextOf(_)
TextOf(pieces) == IF pieces = <<>> THEN <<>> ELSE pieces[1].text \o TextOf(Tail(pieces))

formatNotification(data) == TextOf(NotificationPieces(data))

(***************************************************************************)
(* createMessageHash (monitor.js).  The MD5 digest is kept symbolic: the   *)
(* digest of a text is the pair of the tag "md5" and the digested text, so *)
(* two digests are equal exactly when the digested texts are.              *)
(***************************************************************************)
Md5(data) == <<"md5", data>>

\* a digest of the trimmed text as it is written
createMessageHashCaseSensitive(text) == Md5(Trim(text))

createMessageHash(text) == Md5(Trim(ToLowerCase(text)))

(***************************************************************************)
(* Bounds and inputs of the gate model                                     *)
(***************************************************************************)
\* handleNewMessage invocations started in one run
MaxEvents == 2

\* handleNewMessage invocations in flight at the same time
MaxConcurrent == 2

\* handlers one client may have registered (startMonitoring calls per user)
MaxRegistrations == 1

Users == {"u1", "u2"}

Authors == {"a1"}

TextJob == <<"j","o","b">>

TextJobUpper == <<"J","O","B"," ">>

TextJobBang == <<"j","o","b","!">>

TextBlank == <<" ">>

TextEmpty == <<>>

KeywordsJob == <<TextJob>>

KeywordsBang == << <<"!">> >>

Rulesets == {KeywordsJob, KeywordsBang}

\* the messages of the monitored chats; senderId is sender.id?.toString() || 'unknown'
EventJob == [chatId |-> "c1", messageId |-> "m1", senderId |-> "a1", text |-> TextJob]

EventRepost == [chatId |-> "c2", messageId |-> "m1", senderId |-> "a1", text |-> TextJobUpper]

EventBang == [chatId |-> "c2", messageId |-> "m2", senderId |-> "a1", text |-> TextJobBang]

EventBlank == [chatId |-> "c1", messageId |-> "m2", senderId |-> "unknown", text |-> TextBlank]

EventEmpty == [chatId |-> "c1", messageId |-> "m3", senderId |-> "unknown", text |-> TextEmpty]

Events == {EventJob, EventRepost, EventBang, EventBlank, EventEmpty}

Slots == 1..MaxConcurrent

\* keywordMatcher.analyze(message.message, { keywords: settings.keywords }) for
\* the messages and the rulesets above, evaluated once
MatchResults ==
    [text \in {e.text : e \in Events} |-> [keywords \in Rulesets |-> analyze(text, keywords)]]

(***************************************************************************)
(* State                                                                   *)
(***************************************************************************)
VARIABLES
    users,              \* users table: userId -> [bot_chat_id, is_active]
    monitorSettings,    \* monitor_settings table: userId -> [keywords, is_active]
    dedupRows,          \* the rows of sent_notifications and of the content hash
                        \* table, in the order of their timestamps
    blockedAuthors,     \* set of <<userId, authorId>>
    stats,              \* [messages_processed, matches_found, notifications_sent]
    eventHandlers,      \* per client: the registered handlers, each the settings it captured
    awaitingKeywords,   \* NotificationBot.awaitingKeywords, as the set of its keys
    inv,                \* per slot: one invocation of handleNewMessage
    delivered,          \* history: the notifications bot.sendMessage accepted
    recorded,           \* history: the triples ever inserted into sent_notifications
    returned,           \* the invocation that returned in the last step, if any (else Idle)
    call,               \* one call of a KeywordMatcher method: its arguments and its result
    clients,            \* TelegramMonitor.clients, as the set of its keys
    chats               \* monitored_chats table: userId -> the set of its rows

vars == <<users, monitorSettings, dedupRows, blockedAuthors, stats, eventHandlers,
          awaitingKeywords, inv, delivered, recorded, returned, call, clients, chats>>

NoEvent == [chatId |-> "", messageId |-> "", senderId |-> "", text |-> <<>>]

\* an invocation: its position, its arguments and locals (sendError is the
\* message of the error the first sendMessage threw), and what was true
\* when it was dispatched (blockedAtStart, recordedAtStart, everRecordedAtStart)
\* or has happened since (rulesetEdited)
Idle ==
    [pc |-> "idle", userId |-> "", ev |-> NoEvent, settingsSnapshot |-> <<>>,
     bot_chat_id |-> FALSE, keywords |-> <<>>, analyzeCalls |-> 0,
     keyboard |-> {}, attempts |-> 0, sendError |-> "", outcome |-> "",
     blockedAtStart |-> FALSE, recordedAtStart |-> FALSE, everRecordedAtStart |-> FALSE,
     rulesetEdited |-> FALSE]

\* the database as the web form leaves it for the users of U, their keywords
\* one of the rulesets of R (bot_chat_id is
\* null until the user writes /start to the bot), and a fresh process
InitFor(U, R) ==
    /\ users = [u \in U |-> [bot_chat_id |-> FALSE, is_active |-> TRUE]]
    /\ clients = {}
    /\ chats = [u \in U |-> {}]
    /\ monitorSettings \in [U -> [keywords : R, is_active : {TRUE}]]
    /\ dedupRows = <<>>
    /\ blockedAuthors = {}
    /\ stats = [messages_processed |-> 0, matches_found |-> 0, notifications_sent |-> 0]
    /\ eventHandlers = [u \in U |-> <<>>]
    /\ awaitingKeywords = {}
    /\ inv = [h \in Slots |-> Idle]
    /\ delivered = {}
    /\ recorded = {}
    /\ returned = Idle

\* no method of the matcher is being called on its own
NoCall == [op |-> "", args |-> <<>>, result |-> <<>>, done |-> FALSE]


(***************************************************************************)
(* Stores (database.js).  blockedAuthors, messageHashes and                *)
(* monitors.updateKeywords are called by monitor.js and bot.js but are not *)
(* part of database.js as given; they follow the store interfaces of the   *)
(* specification.                                                          *)
(***************************************************************************)
NotifRow(userId, chatId, messageId) ==
    [table |-> "sent_notifications", key |-> <<userId, chatId, messageId>>]

HashRow(userId, hash) ==
    [table |-> "message_hashes", key |-> <<userId, hash>>]

HasRow(table, key) ==
    \E i \in 1..Len(dedupRows) : dedupRows[i].table = table /\ dedupRows[i].key = key

\* the query with chat_id and message_id bound the wrong way round
NotificationsExistsSwapped(userId, chatId, messageId) ==
    HasRow("sent_notifications", <<userId, messageId, chatId>>)

\* notifications.exists
NotificationsExists(userId, chatId, messageId) ==
    HasRow("sent_notifications", <<userId, chatId, messageId>>)

\* notifications.add: INSERT ... ON CONFLICT DO NOTHING
NotificationsAdd(userId, chatId, messageId) ==
    IF HasRow("sent_notifications", <<userId, chatId, messageId>>) THEN dedupRows
    ELSE Append(dedupRows, NotifRow(userId, chatId, messageId))

\* the rows after the q oldest ones
Newer(q) == SubSeq(dedupRows, q + 1, Len(dedupRows))

\* notifications.cleanup: DELETE ... WHERE sent_at < NOW() - INTERVAL '7 days',
\* run when the q oldest rows are older than 7 days (their content hashes
\* are then older than 24 hours as well)
NotificationsCleanup(q) == Newer(q)

\* messageHashes.exists: recorded for this user within the retention window
\* (a row that leaves the window is expired, see HashesExpire)
MessageHashesExists(userId, hash) == HasRow("message_hashes", <<userId, hash>>)

\* messageHashes.add
MessageHashesAdd(userId, hash) ==
    IF HasRow("message_hashes", <<userId, hash>>) THEN dedupRows
    ELSE Append(dedupRows, HashRow(userId, hash))

\* blockedAuthors.exists
BlockedAuthorsExists(userId, authorId) == <<userId, authorId>> \in blockedAuthors

\* blockedAuthors.add: false when the author is already blocked
BlockedAuthorsAdd(userId, authorId) == blockedAuthors \cup {<<userId, authorId>>}

\* stats.increment
StatsIncrement(field) == [stats EXCEPT ![field] = @ + 1]

\* monitors.updateKeywords
UpdateKeywords(u, keywords) == [monitorSettings EXCEPT ![u].keywords = keywords]

(***************************************************************************)
(* TelegramMonitor.getChatsFromFolder.  A folder is what GetDialogFilters  *)
(* and getEntity answer for it: whether a filter of that name exists and,  *)
(* for each of its includePeers, the id, what the peer is (a user, a basic *)
(* group, a megagroup or a broadcast channel) and whether getEntity        *)
(* succeeds for it.                                                        *)
(***************************************************************************)
MAX_CHATS_PER_USER == 50

\* the class of the input peer: InputPeerChannel, InputPeerChat, InputPeerUser
PeerClass(peer) ==
    IF peer.kind \in {"megagroup", "broadcast channel"} THEN "InputPeerChannel"
    ELSE IF peer.kind = "basic group" THEN "InputPeerChat"
    ELSE "InputPeerUser"

\* entity.className
EntityClass(peer) ==
    IF peer.kind \in {"megagroup", "broadcast channel"} THEN "Channel"
    ELSE IF peer.kind = "basic group" THEN "Chat"
    ELSE "User"

\* entity.megagroup
Megagroup(peer) == peer.kind = "megagroup"

\* includePeers.slice(0, MAX_CHATS_PER_USER)
FirstPeers(peers, limit) == SubSeq(peers, 1, IF Len(peers) < limit THEN Len(peers) ELSE limit)

\* the test of a channel without the megagroup flag
IsGroupOrChannel(peer) == EntityClass(peer) \in {"Chat", "Channel"}

\* const isGroup = ...
IsGroup(peer) ==
    EntityClass(peer) = "Chat" \/ (EntityClass(peer) = "Channel" /\ Megagroup(peer))

\* the peers of the loop that reach chats.push
Pushed(peer) ==
    /\ PeerClass(peer) \in {"InputPeerChannel", "InputPeerChat"}
    /\ peer.available
    /\ EntityClass(peer) # "User"
    /\ IsGroup(peer)

\* the element pushed (kind is what the chat is, kept for the properties)
ChatOf(peer) ==
    [id |-> peer.id, type |-> IF Megagroup(peer) THEN "supergroup" ELSE "group",
     kind |-> peer.kind]

getChatsFromFolder(folder) ==
    IF ~folder.found THEN [success |-> FALSE, chats |-> <<>>]
    ELSE [success |-> TRUE,
          chats |-> Map([i \in 1..Len(SelectSeq(FirstPeers(folder.includePeers,
                                                           MAX_CHATS_PER_USER), Pushed)) |->
                            ChatOf(SelectSeq(FirstPeers(folder.includePeers,
                                                        MAX_CHATS_PER_USER), Pushed)[i])])]

\* chats.deleteByUserId and one chats.add per chat: a later chat of the same
\* id replaces the earlier row
RowsOf(list) ==
    {list[i] : i \in {k \in 1..Len(list) : \A l \in (k + 1)..Len(list) : list[l].id # list[k].id}}

(***************************************************************************)
(* TelegramMonitor.startMonitoring and stopMonitoring.  The handler        *)
(* registered on the client captures the settings read at that moment and  *)
(* passes them to handleNewMessage as settingsSnapshot.  eventHandlers[u]  *)
(* is the list of handlers of the client of u in this.clients.             *)
(***************************************************************************)
\* result.success, or result.error
StartResult(u, folder) ==
    IF ~monitorSettings[u].is_active THEN "Monitor settings not found"
    ELSE IF ~getChatsFromFolder(folder).success THEN "folder not found"
    ELSE "success"

\* from database.chats.deleteByUserId on
Registers(u, chatList) ==
    /\ clients' = clients \cup {u}
    /\ chats' = [chats EXCEPT ![u] = RowsOf(chatList)]
    /\ eventHandlers' = [eventHandlers EXCEPT ![u] = Append(@, monitorSettings[u].keywords)]
    /\ users' = [users EXCEPT ![u].is_active = TRUE]

\* startMonitoring(userId), with the folder the account has at that moment
StartMonitoringFrom(u, folder) ==
    IF ~monitorSettings[u].is_active
    THEN UNCHANGED <<clients, chats, eventHandlers, users>>
    ELSE IF ~getChatsFromFolder(folder).success
    THEN clients' = clients \cup {u} /\ UNCHANGED <<chats, eventHandlers, users>>
    ELSE Registers(u, getChatsFromFolder(folder).chats)

\* stopMonitoring(userId): the client is disconnected and forgotten, and its
\* handlers with it
StopMonitoringOf(u) ==
    /\ clients' = clients \ {u}
    /\ eventHandlers' = [eventHandlers EXCEPT ![u] = <<>>]
    /\ users' = [users EXCEPT ![u].is_active = FALSE]
    /\ monitorSettings' = [monitorSettings EXCEPT ![u].is_active = FALSE]

\* a folder with one basic group
FolderGroup ==
    [found |-> TRUE,
     includePeers |-> <<[id |-> 4, kind |-> "basic group", available |-> TRUE]>>]

\* startMonitoring of a configured user whose folder is found
StartMonitoring(u) ==
    /\ monitorSettings[u].is_active
    /\ Len(eventHandlers[u]) < MaxRegistrations
    /\ StartMonitoringFrom(u, FolderGroup)
    /\ UNCHANGED <<call, monitorSettings, dedupRows, blockedAuthors, stats,
                   awaitingKeywords, inv, delivered, recorded>>
    /\ returned' = Idle

(***************************************************************************)
(* The client delivers one NewMessage event to every registered handler    *)
(***************************************************************************)
Free(h) == inv[h].pc = "idle"

\* the n lowest free slots
LowestFree(n) ==
    CHOOSE S \in SUBSET {h \in Slots : Free(h)} :
        /\ Cardinality(S) = n
        /\ \A a \in S : \A b \in {h \in Slots : Free(h)} \ S : a < b

RankIn(S, h) == Cardinality({a \in S : a <= h})

Started == stats.messages_processed + Cardinality({h \in Slots : inv[h].pc = "start"})

Dispatch(u, e) ==
    LET n == Len(eventHandlers[u])
        key == <<u, e.chatId, e.messageId>>
    IN  /\ n >= 1
        /\ Cardinality({h \in Slots : Free(h)}) >= n
        /\ Started + n <= MaxEvents
        /\ inv' = [h \in Slots |->
                      IF h \in LowestFree(n)
                      THEN [Idle EXCEPT
                               !.pc = "start", !.userId = u, !.ev = e,
                               !.settingsSnapshot = eventHandlers[u][RankIn(LowestFree(n), h)],
                               !.blockedAtStart = <<u, e.senderId>> \in blockedAuthors,
                               !.recordedAtStart = HasRow("sent_notifications", key),
                               !.everRecordedAtStart = key \in recorded]
                      ELSE inv[h]]
        /\ UNCHANGED <<call, clients, chats, users, monitorSettings, dedupRows,
                       blockedAuthors, stats, eventHandlers, awaitingKeywords,
                       delivered, recorded>>
        /\ returned' = Idle

(***************************************************************************)
(* TelegramMonitor.handleNewMessage, one action per awaited call           *)
(***************************************************************************)
\* the invocation returns
Return(h, why) ==
    /\ inv' = [inv EXCEPT ![h] = Idle]
    /\ returned' = [inv[h] EXCEPT !.pc = "done", !.outcome = why]

Goto(h, pc) ==
    /\ inv' = [inv EXCEPT ![h].pc = pc]
    /\ returned' = Idle

\* stats.increment('messages_processed'), then the check for an empty message
Start(h) ==
    /\ inv[h].pc = "start"
    /\ stats' = StatsIncrement("messages_processed")
    /\ IF Len(inv[h].ev.text) = 0 THEN Return(h, "empty") ELSE Goto(h, "getUser")
    /\ UNCHANGED <<call, clients, chats, users, monitorSettings, dedupRows,
                   blockedAuthors, eventHandlers, awaitingKeywords, delivered,
                   recorded>>

\* users.getById: the fresh bot_chat_id
GetUser(h) ==
    /\ inv[h].pc = "getUser"
    /\ IF inv[h].userId \notin DOMAIN users THEN Return(h, "no user")
       ELSE /\ inv' = [inv EXCEPT ![h].pc = "getSettings",
                                  ![h].bot_chat_id = users[inv[h].userId].bot_chat_id]
            /\ returned' = Idle
    /\ UNCHANGED <<call, clients, chats, users, monitorSettings, dedupRows,
                   blockedAuthors, stats, eventHandlers, awaitingKeywords,
                   delivered, recorded>>

\* the settings the handler captured when it was registered
SnapshotSettings(h) == [keywords |-> inv[h].settingsSnapshot, is_active |-> TRUE]

\* const settings = await database.monitors.getByUserId(userId)
CurrentSettings(h) == monitorSettings[inv[h].userId]

\* monitors.getByUserId (active settings only), then keywordMatcher.analyze
GetSettings(h) ==
    LET settings == CurrentSettings(h)
        keywords == settings.keywords
        matchResult == MatchResults[inv[h].ev.text][keywords]
        analyzed == [inv[h] EXCEPT !.keywords = keywords, !.analyzeCalls = @ + 1]
    IN  /\ inv[h].pc = "getSettings"
        /\ IF ~settings.is_active THEN Return(h, "no settings")
           ELSE IF ~matchResult.matched
           THEN /\ inv' = [inv EXCEPT ![h] = Idle]
                /\ returned' =
                       [analyzed EXCEPT !.pc = "done", !.outcome = "no match"]
           ELSE /\ inv' = [inv EXCEPT ![h] = [analyzed EXCEPT !.pc = "incMatches"]]
                /\ returned' = Idle
        /\ UNCHANGED <<call, clients, chats, users, monitorSettings, dedupRows,
                       blockedAuthors, stats, eventHandlers, awaitingKeywords,
                       delivered, recorded>>

\* stats.increment('matches_found')
IncMatches(h) ==
    /\ inv[h].pc = "incMatches"
    /\ stats' = StatsIncrement("matches_found")
    /\ Goto(h, "checkTriple")
    /\ UNCHANGED <<call, clients, chats, users, monitorSettings, dedupRows,
                   blockedAuthors, eventHandlers, awaitingKeywords, delivered,
                   recorded>>

\* notifications.exists(userId, chatId, messageId)
CheckTriple(h) ==
    /\ inv[h].pc = "checkTriple"
    /\ IF NotificationsExists(inv[h].userId, inv[h].ev.chatId, inv[h].ev.messageId)
       THEN Return(h, "duplicate triple")
       ELSE Goto(h, "checkBlock")
    /\ UNCHANGED <<call, clients, chats, users, monitorSettings, dedupRows,
                   blockedAuthors, stats, eventHandlers, awaitingKeywords,
                   delivered, recorded>>

\* message.getSender, then blockedAuthors.exists(userId, senderId)
CheckBlock(h) ==
    /\ inv[h].pc = "checkBlock"
    /\ IF /\ inv[h].ev.senderId # "unknown"
          /\ BlockedAuthorsExists(inv[h].userId, inv[h].ev.senderId)
       THEN Return(h, "blocked")
       ELSE Goto(h, "checkHash")
    /\ UNCHANGED <<call, clients, chats, users, monitorSettings, dedupRows,
                   blockedAuthors, stats, eventHandlers, awaitingKeywords,
                   delivered, recorded>>

\* the inline keyboard: both buttons when the sender id is known, none otherwise
InlineKeyboard(senderId) == IF senderId # "unknown" THEN {"url", "block"} ELSE {}

\* a lookup of the hash that leaves the user out
HashRecordedForAnyUser(h) ==
    \E u \in Users : MessageHashesExists(u, createMessageHash(inv[h].ev.text))

\* messageHashes.exists(userId, createMessageHash(message.message))
HashRecorded(h) ==
    MessageHashesExists(inv[h].userId, createMessageHash(inv[h].ev.text))

\* the content hash check; then message.getChat, the notification and its
\* keyboard, and the test of user.bot_chat_id
CheckHash(h) ==
    /\ inv[h].pc = "checkHash"
    /\ IF HashRecorded(h)
       THEN Return(h, "duplicate hash")
       ELSE IF ~inv[h].bot_chat_id THEN Return(h, "no bot_chat_id")
       ELSE /\ inv' = [inv EXCEPT ![h].pc = "send",
                                  ![h].keyboard = InlineKeyboard(inv[h].ev.senderId)]
            /\ returned' = Idle
    /\ UNCHANGED <<call, clients, chats, users, monitorSettings, dedupRows,
                   blockedAuthors, stats, eventHandlers, awaitingKeywords,
                   delivered, recorded>>

Delivery(h) ==
    [userId |-> inv[h].userId, chatId |-> inv[h].ev.chatId,
     messageId |-> inv[h].ev.messageId, senderId |-> inv[h].ev.senderId,
     text |-> inv[h].ev.text, keyboard |-> inv[h].keyboard]

SendResults == {"ok", "BUTTON_USER_INVALID", "BUTTON_URL_INVALID", "other error"}

\* sendError.message.includes('BUTTON_USER_INVALID') || ...includes('BUTTON_URL_INVALID')
IsButtonError(result) == result \in {"BUTTON_USER_INVALID", "BUTTON_URL_INVALID"}

\* the retry with the keyboard of the first attempt
FallbackKeyboardUnfiltered(keyboard) == keyboard

\* the retry keyboard: the rows with a tg://user url button are filtered out
FallbackKeyboard(keyboard) == keyboard \ {"url"}

\* a send whose records are written whether or not sendMessage threw
SendRecordingAnyway(h, result) ==
    /\ inv[h].pc = "send"
    /\ inv' = [inv EXCEPT ![h].pc = "addNotif", ![h].attempts = 1,
                          ![h].sendError = IF result = "ok" THEN "" ELSE result]
    /\ delivered' = IF result = "ok" THEN delivered \cup {Delivery(h)} ELSE delivered
    /\ returned' = Idle
    /\ UNCHANGED <<call, clients, chats, users, monitorSettings, dedupRows,
                   blockedAuthors, stats, eventHandlers, awaitingKeywords,
                   recorded>>

\* bot.sendMessage(user.bot_chat_id, notification, messageOptions) and its catch
Send(h, result) ==
    /\ inv[h].pc = "send"
    /\ IF result = "ok"
       THEN /\ inv' = [inv EXCEPT ![h].pc = "addNotif", ![h].attempts = 1]
            /\ delivered' = delivered \cup {Delivery(h)}
            /\ returned' = Idle
       ELSE IF IsButtonError(result)
       THEN /\ inv' = [inv EXCEPT ![h].pc = "retry", ![h].attempts = 1,
                                  ![h].sendError = result,
                                  ![h].keyboard = FallbackKeyboard(@)]
            /\ returned' = Idle
            /\ UNCHANGED delivered
       ELSE /\ inv' = [inv EXCEPT ![h] = Idle]
            /\ returned' =
                   [inv[h] EXCEPT !.pc = "done", !.attempts = 1, !.sendError = result,
                                  !.outcome = "send failed"]
            /\ UNCHANGED delivered
    /\ UNCHANGED <<call, clients, chats, users, monitorSettings, dedupRows,
                   blockedAuthors, stats, eventHandlers, awaitingKeywords,
                   recorded>>

\* bot.sendMessage(user.bot_chat_id, notification, fallbackOptions) and its catch
Retry(h, result) ==
    /\ inv[h].pc = "retry"
    /\ IF result = "ok"
       THEN /\ inv' = [inv EXCEPT ![h].pc = "addNotif", ![h].attempts = 2]
            /\ delivered' = delivered \cup {Delivery(h)}
            /\ returned' = Idle
       ELSE /\ inv' = [inv EXCEPT ![h] = Idle]
            /\ returned' =
                   [inv[h] EXCEPT !.pc = "done", !.attempts = 2, !.outcome = "retry failed"]
            /\ UNCHANGED delivered
    /\ UNCHANGED <<call, clients, chats, users, monitorSettings, dedupRows,
                   blockedAuthors, stats, eventHandlers, awaitingKeywords,
                   recorded>>

\* notifications.add(userId, chatId, messageId)
AddNotif(h) ==
    /\ inv[h].pc = "addNotif"
    /\ dedupRows' = NotificationsAdd(inv[h].userId, inv[h].ev.chatId, inv[h].ev.messageId)
    /\ recorded' = recorded \cup {<<inv[h].userId, inv[h].ev.chatId, inv[h].ev.messageId>>}
    /\ Goto(h, "addHash")
    /\ UNCHANGED <<call, clients, chats, users, monitorSettings, blockedAuthors,
                   stats, eventHandlers, awaitingKeywords, delivered>>

\* messageHashes.add(userId, messageHash)
AddHash(h) ==
    /\ inv[h].pc = "addHash"
    /\ dedupRows' = MessageHashesAdd(inv[h].userId, createMessageHash(inv[h].ev.text))
    /\ Goto(h, "incSent")
    /\ UNCHANGED <<call, clients, chats, users, monitorSettings, blockedAuthors,
                   stats, eventHandlers, awaitingKeywords, delivered, recorded>>

\* stats.increment('notifications_sent')
IncSent(h) ==
    /\ inv[h].pc = "incSent"
    /\ stats' = StatsIncrement("notifications_sent")
    /\ Return(h, "sent")
    /\ UNCHANGED <<call, clients, chats, users, monitorSettings, dedupRows,
                   blockedAuthors, eventHandlers, awaitingKeywords, delivered,
                   recorded>>

(***************************************************************************)
(* NotificationBot handlers (bot.js)                                       *)
(***************************************************************************)
\* /start: users.updateBotChatId for an existing user
BotStart(u) ==
    /\ ~users[u].bot_chat_id
    /\ users' = [users EXCEPT ![u].bot_chat_id = TRUE]
    /\ UNCHANGED <<call, clients, chats, monitorSettings, dedupRows,
                   blockedAuthors, stats, eventHandlers, awaitingKeywords, inv,
                   delivered, recorded>>
    /\ returned' = Idle

\* callback_query 'edit_keywords'
EditKeywords(u) ==
    /\ u \notin awaitingKeywords
    /\ awaitingKeywords' = awaitingKeywords \cup {u}
    /\ UNCHANGED <<call, clients, chats, users, monitorSettings, dedupRows,
                   blockedAuthors, stats, eventHandlers, inv, delivered,
                   recorded>>
    /\ returned' = Idle

\* callback_query 'cancel_keywords'
CancelKeywords(u) ==
    /\ u \in awaitingKeywords
    /\ awaitingKeywords' = awaitingKeywords \ {u}
    /\ UNCHANGED <<call, clients, chats, users, monitorSettings, dedupRows,
                   blockedAuthors, stats, eventHandlers, inv, delivered,
                   recorded>>
    /\ returned' = Idle

\* text.split(/[\n,]+/).map(k => k.trim()).filter(k => k.length > 0)
RECURSIVE SplitList(_, _)
SplitList(s, cur) ==
    IF s = <<>> THEN <<cur>>
    ELSE IF Head(s) \in {"\n", ","} THEN <<cur>> \o SplitList(Tail(s), <<>>)
    ELSE SplitList(Tail(s), Append(cur, Head(s)))

ParseKeywordInput(text) ==
    LET pieces == SplitList(text, <<>>)
        trimmed == [i \in 1..Len(pieces) |-> Trim(pieces[i])]
    IN  SelectSeq(trimmed, LAMBDA k : Len(k) > 0)

MaxKeywords == 50

\* the messages a user answers the edit prompt with
KeywordMessages == {TextJob, <<"!">>, <<" ", ",">>}

\* on 'message': the new keyword list of a user the bot is waiting for
KeywordInput(u, msgText) ==
    LET text == Trim(msgText)
        parsed == ParseKeywordInput(text)
        keywords == IF Len(parsed) > MaxKeywords THEN SubSeq(parsed, 1, MaxKeywords)
                    ELSE parsed
        accepted == ~StartsWith(msgText, "/") /\ Len(text) > 0 /\ Len(parsed) > 0
    IN  /\ u \in awaitingKeywords
        /\ accepted
        /\ monitorSettings' = UpdateKeywords(u, keywords)
        /\ awaitingKeywords' = awaitingKeywords \ {u}
        /\ inv' = [h \in Slots |->
                      IF /\ ~Free(h)
                         /\ inv[h].userId = u
                         /\ keywords # monitorSettings[u].keywords
                      THEN [inv[h] EXCEPT !.rulesetEdited = TRUE]
                      ELSE inv[h]]
        /\ UNCHANGED <<call, clients, chats, users, dedupRows, blockedAuthors,
                       stats, eventHandlers, delivered, recorded>>
        /\ returned' = Idle

\* callback_query 'block_author:<id>:<name>', the button of a delivered notification
BlockAuthor(u, authorId) ==
    /\ \E d \in delivered :
           d.userId = u /\ d.senderId = authorId /\ "block" \in d.keyboard
    /\ ~BlockedAuthorsExists(u, authorId)
    /\ blockedAuthors' = BlockedAuthorsAdd(u, authorId)
    /\ UNCHANGED <<call, clients, chats, users, monitorSettings, dedupRows,
                   stats, eventHandlers, awaitingKeywords, inv, delivered,
                   recorded>>
    /\ returned' = Idle

(***************************************************************************)
(* NotificationBot handlers that start and stop the monitoring, and the    *)
(* /keywords command.  What the handler answered is kept in returned for   *)
(* one step, with pc "bot".                                                *)
(***************************************************************************)
\* handlers one client may have registered while the bot is used
MaxHandlers == 2

\* the longest list of includePeers: one more than MAX_CHATS_PER_USER
MaxPeers == 51

\* a folder with a user, a broadcast channel, a megagroup, a basic group, a
\* megagroup that getEntity fails for, and the megagroup once more
FolderMixed ==
    [found |-> TRUE,
     includePeers |-> <<[id |-> 1, kind |-> "user", available |-> TRUE],
                        [id |-> 2, kind |-> "broadcast channel", available |-> TRUE],
                        [id |-> 3, kind |-> "megagroup", available |-> TRUE],
                        [id |-> 4, kind |-> "basic group", available |-> TRUE],
                        [id |-> 5, kind |-> "megagroup", available |-> FALSE],
                        [id |-> 3, kind |-> "megagroup", available |-> TRUE]>>]

\* a folder with more groups than may be monitored
FolderBig ==
    [found |-> TRUE,
     includePeers |-> [i \in 1..MaxPeers |->
                          [id |-> i,
                           kind |-> IF i % 2 = 0 THEN "megagroup" ELSE "basic group",
                           available |-> TRUE]]]

\* no folder of the configured name
FolderMissing == [found |-> FALSE, includePeers |-> <<>>]

Folders == {FolderGroup, FolderMixed, FolderBig, FolderMissing}

Replied(u, what) ==
    returned' = [Idle EXCEPT !.pc = "bot", !.userId = u, !.outcome = what]

\* onText /keywords: the list of keywords with the two buttons
KeywordsCommand(u) ==
    /\ Replied(u, IF monitorSettings[u].is_active THEN "keywords shown"
                  ELSE "settings not found")
    /\ UNCHANGED <<call, clients, chats, users, monitorSettings, dedupRows,
                   blockedAuthors, stats, eventHandlers, awaitingKeywords, inv,
                   delivered, recorded>>

\* onText /update
UpdateCommand(u, folder) ==
    /\ Len(eventHandlers[u]) < MaxHandlers
    /\ IF ~monitorSettings[u].is_active
       THEN /\ Replied(u, "settings not found")
            /\ UNCHANGED <<clients, chats, eventHandlers, users>>
       ELSE /\ StartMonitoringFrom(u, folder)
            /\ Replied(u, IF StartResult(u, folder) = "success" THEN "updated"
                          ELSE "update failed")
    /\ UNCHANGED <<call, monitorSettings, dedupRows, blockedAuthors, stats,
                   awaitingKeywords, inv, delivered, recorded>>

\* callback_query 'start_monitoring'
StartButton(u, folder) ==
    /\ Len(eventHandlers[u]) < MaxHandlers
    /\ StartMonitoringFrom(u, folder)
    /\ Replied(u, IF StartResult(u, folder) = "success" THEN "started"
                  ELSE "start failed")
    /\ UNCHANGED <<call, monitorSettings, dedupRows, blockedAuthors, stats,
                   awaitingKeywords, inv, delivered, recorded>>

\* onText /stop and callback_query 'stop_monitoring'
StopCommand(u) ==
    /\ StopMonitoringOf(u)
    /\ Replied(u, "stopped")
    /\ UNCHANGED <<call, chats, dedupRows, blockedAuthors, stats, awaitingKeywords,
                   inv, delivered, recorded>>

(***************************************************************************)
(* Time and the periodic cleanup (setInterval of the server).  Rows are    *)
(* kept in the order of their timestamps, so the rows that have reached an *)
(* age are the oldest ones.                                                *)
(***************************************************************************)
\* the content hashes among the p oldest rows leave the 24 hour window
HashesExpire(p) ==
    LET kept == SelectSeq(SubSeq(dedupRows, 1, p), LAMBDA r : r.table # "message_hashes")
    IN  /\ p <= Len(dedupRows)
        /\ kept \o Newer(p) # dedupRows
        /\ dedupRows' = kept \o Newer(p)
        /\ returned' = Idle
        /\ UNCHANGED <<call, clients, chats, users, monitorSettings,
                       blockedAuthors, stats, eventHandlers, awaitingKeywords,
                       inv, delivered, recorded>>

\* database.notifications.cleanup() when the q oldest rows are older than 7 days
Cleanup(q) ==
    /\ q <= Len(dedupRows)
    /\ dedupRows[q].table = "sent_notifications"
    /\ dedupRows' = NotificationsCleanup(q)
    /\ inv' = [h \in Slots |->
                  IF \A i \in 1..Len(NotificationsCleanup(q)) :
                         NotificationsCleanup(q)[i].key #
                             <<inv[h].userId, inv[h].ev.chatId, inv[h].ev.messageId>>
                  THEN [inv[h] EXCEPT !.recordedAtStart = FALSE]
                  ELSE inv[h]]
    /\ returned' = Idle
    /\ UNCHANGED <<call, clients, chats, users, monitorSettings, blockedAuthors,
                   stats, eventHandlers, awaitingKeywords, delivered, recorded>>

(***************************************************************************)
(* Specifications                                                          *)
(***************************************************************************)
\* monitoring of the users of U and the handling of the events of E
GateNext(U, E) ==
    \/ \E u \in U : StartMonitoring(u)
    \/ \E u \in U : \E e \in E : Dispatch(u, e)
    \/ \E h \in Slots : Start(h)
    \/ \E h \in Slots : GetUser(h)
    \/ \E h \in Slots : GetSettings(h)
    \/ \E h \in Slots : IncMatches(h)
    \/ \E h \in Slots : CheckTriple(h)
    \/ \E h \in Slots : CheckBlock(h)
    \/ \E h \in Slots : CheckHash(h)
    \/ \E h \in Slots : \E r \in SendResults : Send(h, r)
    \/ \E h \in Slots : \E r \in SendResults : Retry(h, r)
    \/ \E h \in Slots : AddNotif(h)
    \/ \E h \in Slots : AddHash(h)
    \/ \E h \in Slots : IncSent(h)
    \/ \E u \in U : BotStart(u)
    \/ \E u \in U : \E a \in Authors : BlockAuthor(u, a)

\* every delivery inserts two rows
MaxRows == 2 * MaxEvents

TimeNext ==
    \/ \E p \in 1..MaxRows : HashesExpire(p)
    \/ \E q \in 1..MaxRows : Cleanup(q)

EditNext(U) ==
    \/ \E u \in U : EditKeywords(u)
    \/ \E u \in U : CancelKeywords(u)
    \/ \E u \in U : \E m \in KeywordMessages : KeywordInput(u, m)

\* one configured user, whose rules are not edited
InitSingle == InitFor({"u1"}, {KeywordsJob}) /\ call = NoCall

SpecGate == InitSingle /\ [][GateNext({"u1"}, Events) \/ TimeNext]_vars

\* one configured user who edits the rules while being monitored
InitRules == InitFor({"u1"}, Rulesets) /\ call = NoCall

EventsRules == {EventJob, EventBlank, EventEmpty}

SpecRules == InitRules /\ [][GateNext({"u1"}, EventsRules) \/ EditNext({"u1"})]_vars

\* two configured users who monitor the same chats
InitUsers == InitFor(Users, {KeywordsJob}) /\ call = NoCall

EventsUsers == {EventJob, EventRepost}

SpecUsers == InitUsers /\ [][GateNext(Users, EventsUsers)]_vars

\* one configured user who uses the commands and buttons of the bot
InitBot == InitFor({"u1"}, Rulesets) /\ call = NoCall

BotNext(U) ==
    \/ \E u \in U : BotStart(u)
    \/ \E u \in U : KeywordsCommand(u)
    \/ \E u \in U : \E folder \in Folders : UpdateCommand(u, folder)
    \/ \E u \in U : \E folder \in Folders : StartButton(u, folder)
    \/ \E u \in U : StopCommand(u)

SpecBot == InitBot /\ [][BotNext({"u1"}) \/ EditNext({"u1"})]_vars

(***************************************************************************)
(* The matcher on its own: one call of one method of KeywordMatcher, its   *)
(* arguments drawn from the sets below.                                    *)
(***************************************************************************)
\* the texts: absent, empty, blank, "job", "?!", "Head Growth",
\* "We need a Head of Growth now", "Marketing is the head of it",
\* "head of sales", and in Russian "rabota na domu" (work at home),
\* "nuzhen smm srochno" (an smm is needed urgently), "pyat' marketologov"
\* (five marketers), "nuzhen marketolog" (a marketer is needed) and
\* "nuzhna razrabotka" (development is needed)
MatcherTexts ==
    {Absent, TextEmpty, TextBlank, TextJob, <<"?","!">>,
     <<"H","e","a","d"," ","G","r","o","w","t","h">>,
     <<"W","e"," ","n","e","e","d"," ","a"," ","H","e","a","d"," ","o","f"," ",
       "G","r","o","w","t","h"," ","n","o","w">>,
     <<"M","a","r","k","e","t","i","n","g"," ","i","s"," ","t","h","e"," ",
       "h","e","a","d"," ","o","f"," ","i","t">>,
     <<"h","e","a","d"," ","o","f"," ","s","a","l","e","s">>,
     <<"ru_r","ru_a","ru_b","ru_o","ru_t","ru_a"," ","ru_n","ru_a"," ",
       "ru_d","ru_o","ru_m","ru_u">>,
     <<"ru_n","ru_u","ru_zh","ru_ye","ru_n"," ","s","m","m"," ",
       "ru_s","ru_r","ru_o","ru_ch","ru_n","ru_o">>,
     <<"ru_p","ru_ya","ru_t","ru_soft"," ","ru_m","ru_a","ru_r","ru_k","ru_ye",
       "ru_t","ru_o","ru_l","ru_o","ru_g","ru_o","ru_v">>,
     <<"ru_n","ru_u","ru_zh","ru_ye","ru_n"," ","ru_m","ru_a","ru_r","ru_k","ru_ye",
       "ru_t","ru_o","ru_l","ru_o","ru_g">>,
     <<"ru_n","ru_u","ru_zh","ru_n","ru_a"," ","ru_r","ru_a","ru_z","ru_r","ru_a",
       "ru_b","ru_o","ru_t","ru_k","ru_a">>}

\* the keyword lists: absent, empty, job, job twice, a lone quote, an empty
\* pair of quotes, punctuation only, "Head of Growth" in quotes,
\* [head of marketing], [rabota na domu], marketolog, marketologi, rabota,
\* smm in Cyrillic letters, "dom na" (two parts shorter than four),
\* nuzhna (a synonym of nuzhen), "hed of growt" (close to a phrase of a text
\* as a whole only), grwth (one part, shorter than six) and [nuzhna rabota]
MatcherRulesets ==
    {AbsentList, <<>>, KeywordsJob, <<TextJob, TextJob>>, <<<<"\"">>>>, <<<<"\"","\"">>>>,
     KeywordsBang,
     <<<<"\"","H","e","a","d"," ","o","f"," ","G","r","o","w","t","h","\"">>>>,
     <<<<"[","h","e","a","d"," ","o","f"," ","m","a","r","k","e","t","i","n","g","]">>>>,
     <<<<"[","ru_r","ru_a","ru_b","ru_o","ru_t","ru_a"," ","ru_n","ru_a"," ",
         "ru_d","ru_o","ru_m","ru_u","]">>>>,
     <<<<"ru_m","ru_a","ru_r","ru_k","ru_ye","ru_t","ru_o","ru_l","ru_o","ru_g">>>>,
     <<<<"ru_m","ru_a","ru_r","ru_k","ru_ye","ru_t","ru_o","ru_l","ru_o","ru_g","ru_i">>>>,
     <<<<"ru_r","ru_a","ru_b","ru_o","ru_t","ru_a">>>>,
     <<<<"ru_s","ru_m","ru_m">>>>,
     <<<<"ru_d","ru_o","ru_m"," ","ru_n","ru_a">>>>,
     <<<<"ru_n","ru_u","ru_zh","ru_n","ru_a">>>>,
     <<<<"h","e","d"," ","o","f"," ","g","r","o","w","t">>>>,
     <<<<"g","r","w","t","h">>>>,
     <<<<"[","ru_n","ru_u","ru_zh","ru_n","ru_a"," ",
         "ru_r","ru_a","ru_b","ru_o","ru_t","ru_a","]">>>>}

\* the words fuzzyMatch is called with
FuzzyWords ==
    {<<>>, <<"a","b">>, <<"b","a">>, TextJob, <<"J","o","b","!">>, <<"j","o","b","s">>,
     <<"k","i","t","t","e","n">>, <<"s","i","t","t","i","n","g">>,
     <<"ru_m","ru_a","ru_r","ru_k","ru_ye","ru_t","ru_o","ru_l","ru_o","ru_g">>,
     <<"ru_m","ru_a","ru_r","ru_k","ru_ye","ru_t","ru_o","ru_l","ru_o","ru_g","ru_i">>,
     <<"ru_r","ru_a","ru_b","ru_o","ru_t","ru_a">>,
     <<"ru_r","ru_a","ru_z","ru_r","ru_a","ru_b","ru_o","ru_t","ru_k","ru_a">>}

\* the thresholds the code passes (0.6, 0.75, 0.8), and the two extremes
FuzzyThresholds == {0, 60, 75, 80, 100}

\* the characters of the texts normalizeText is called with
NormalizeAlphabet == {"A", "b", "RU_YO", "ru_yo", " ", "\n", "!", "_"}

\* the longest text normalizeText is called with
MaxTextLen == 3

\* the characters of the keywords parseKeywordMode is called with
KeywordAlphabet == {"\"", "'", "laquo", "raquo", "[", "]", "a", " "}

\* the longest keyword parseKeywordMode is called with
MaxKeywordLen == 3

\* the longest message text formatNotification is called with: one
\* character more than the limit of truncateText
MaxMessageLen == 501

\* a text of the longest length, with an underscore as the last character
\* that truncateText keeps
LongText == [i \in 1..MaxMessageLen |-> IF i = MessageLimit - 3 THEN "_" ELSE "a"]

\* what analyze may have returned: nothing, a plain keyword, a keyword with
\* an underscore (a word character, kept by normalizeText), a quoted phrase
\* in brackets, and a list of keywords without details
NotificationMatches ==
    {[matchedKeywords |-> <<>>, matchDetails |-> <<>>],
     [matchedKeywords |-> <<TextJob>>,
      matchDetails |-> <<[keyword |-> TextJob, matchType |-> "exact",
                          matchedWord |-> TextJob]>>],
     [matchedKeywords |-> <<<<"a","_","b">>>>,
      matchDetails |-> <<[keyword |-> <<"a","_","b">>, matchType |-> "exact",
                          matchedWord |-> <<"a","_","b">>]>>],
     [matchedKeywords |-> <<<<"\"","[","x","]","\"">>, TextJob>>,
      matchDetails |-> <<[keyword |-> <<"\"","[","x","]","\"">>,
                          matchType |-> "exact (strict)", matchedWord |-> <<"[","x","]">>],
                         [keyword |-> TextJob, matchType |-> "stem", matchedWord |-> <<>>]>>],
     [matchedKeywords |-> <<<<"a","*","b">>, TextJob>>, matchDetails |-> <<>>]}

\* the data formatNotification is called with
NotificationData ==
    {[firstName |-> firstName, username |-> username, userId |-> <<"4","2">>,
      messageText |-> messageText, chatTitle |-> chatTitle, chatId |-> chatId,
      messageId |-> <<"9">>, matchedKeywords |-> m.matchedKeywords,
      matchDetails |-> m.matchDetails] :
        firstName \in {Absent, <<"B","o","b">>, <<"a","_","b">>},
        username \in {Absent, <<"b","o","b">>, <<"a","_","b">>},
        messageText \in {TextJob, <<"*","j","o","b","*">>, LongText},
        chatTitle \in {<<"c","h","a","t">>, <<"[","x","]">>},
        chatId \in {<<"-","1","0","0","7">>, <<"-","5">>},
        m \in NotificationMatches}

\* the words getSynonyms is called with: job (in no class), manager (a
\* listed synonym), menedzhery (the stem of a key), market (contained in a
\* key) and manadger (one letter away from a listed synonym)
SynonymWords ==
    {TextJob, <<"m","a","n","a","g","e","r">>,
     <<"ru_m","ru_ye","ru_n","ru_ye","ru_d","ru_zh","ru_ye","ru_r","ru_y">>,
     <<"ru_m","ru_a","ru_r","ru_k","ru_ye","ru_t">>,
     <<"m","a","n","a","d","g","e","r">>}

\* the letters of the words stem is called with: they spell the suffixes
\* ami, ov, am, om, im, a, o and i
StemAlphabet == {"ru_a", "ru_m", "ru_i", "ru_o", "ru_v"}

\* the longest word stem is called with
MaxWordLen == 5

\* the strings over an alphabet, up to a length
Strings(alphabet, maxLen) == UNION {[1..n -> alphabet] : n \in 0..maxLen}

\* a call that has not run yet
Pending(op, args) == [op |-> op, args |-> args, result |-> <<>>, done |-> FALSE]

MatcherCalls ==
    {Pending("analyze", <<text, keywords>>) :
        text \in MatcherTexts, keywords \in MatcherRulesets}
    \cup {Pending("match", <<text, keywords>>) :
        text \in {Absent, TextEmpty, TextJob}, keywords \in {AbsentList, <<>>, KeywordsJob}}

WordCalls ==
    {Pending("fuzzyMatch", <<word1, word2, threshold>>) :
        word1 \in FuzzyWords, word2 \in FuzzyWords, threshold \in FuzzyThresholds}
    \cup {Pending("normalizeText", <<text>>) :
        text \in Strings(NormalizeAlphabet, MaxTextLen)}
    \cup {Pending("parseKeywordMode", <<keyword>>) :
        keyword \in Strings(KeywordAlphabet, MaxKeywordLen)}
    \cup {Pending("formatNotification", <<data>>) : data \in NotificationData}
    \cup {Pending("getSynonyms", <<word>>) : word \in SynonymWords}
    \cup {Pending("stem", <<word>>) : word \in Strings(StemAlphabet, MaxWordLen) \ {<<>>}}

InitMatcher == InitFor({"u1"}, {KeywordsJob}) /\ call \in MatcherCalls

InitWords == InitFor({"u1"}, {KeywordsJob}) /\ call \in WordCalls

\* the call returns
Returns(result) ==
    /\ ~call.done
    /\ call' = [call EXCEPT !.result = result, !.done = TRUE]
    /\ UNCHANGED <<clients, chats, users, monitorSettings, dedupRows,
                   blockedAuthors, stats, eventHandlers, awaitingKeywords, inv,
                   delivered, recorded, returned>>

Analyze == call.op = "analyze" /\ Returns(analyze(call.args[1], call.args[2]))

Match == call.op = "match" /\ Returns(match(call.args[1], call.args[2]))

FuzzyMatch ==
    call.op = "fuzzyMatch" /\ Returns(fuzzyMatch(call.args[1], call.args[2], call.args[3]))

NormalizeText == call.op = "normalizeText" /\ Returns(normalizeText(call.args[1]))

ParseKeywordMode == call.op = "parseKeywordMode" /\ Returns(parseKeywordMode(call.args[1]))

FormatNotification ==
    call.op = "formatNotification" /\ Returns(formatNotification(call.args[1]))

GetSynonyms == call.op = "getSynonyms" /\ Returns(getSynonyms(call.args[1]))

Stem == call.op = "stem" /\ Returns(stem(call.args[1]))

MatcherNext == Analyze \/ Match

\* the whole pipeline, called with a text and a list of keywords
SpecMatcher == InitMatcher /\ [][MatcherNext]_vars

WordsNext ==
    \/ FuzzyMatch \/ NormalizeText \/ ParseKeywordMode \/ FormatNotification
    \/ GetSynonyms \/ Stem

\* the methods on one string or on a pair of words
SpecWords == InitWords /\ [][WordsNext]_vars

\* everything the program does
Init == InitFor(Users, Rulesets) /\ call \in {NoCall} \cup MatcherCalls \cup WordCalls

Next ==
    \/ GateNext(Users, Events) \/ TimeNext \/ EditNext(Users) \/ BotNext(Users)
    \/ MatcherNext \/ WordsNext

Spec == Init /\ [][Next]_vars

(***************************************************************************)
(* Properties of the gate                                                  *)
(***************************************************************************)
Triple(r) == <<r.userId, r.ev.chatId, r.ev.messageId>>

\* sendMessage has accepted the notification of invocation h
Delivering(h) == inv[h].pc \in {"addNotif", "addHash", "incSent"}

Returned == returned.pc = "done"

\* C1: a message of an author who was blocked for the user when it arrived is
\* suppressed before the match pipeline runs: the pipeline is invoked zero
\* times for it and no notification is delivered.
C1_BlockedBeforeMatch ==
    /\ \A h \in Slots :
           inv[h].blockedAtStart => inv[h].analyzeCalls = 0 /\ ~Delivering(h)
    /\ returned.blockedAtStart => returned.analyzeCalls = 0 /\ returned.outcome # "sent"

\* C2: two concurrent evaluations for the same user of messages with the same
\* triple or the same content hash never both pass the dedup checks: at most
\* one of them is delivered.
C2_DedupSerialized ==
    \A h1 \in Slots : \A h2 \in Slots \ {h1} :
        Delivering(h1) /\ Delivering(h2) /\ inv[h1].userId = inv[h2].userId
            => /\ Triple(inv[h1]) # Triple(inv[h2])
               /\ createMessageHash(inv[h1].ev.text) # createMessageHash(inv[h2].ev.text)

\* C3, as claimed: once a triple has been recorded, every later handling of an
\* event with that triple is suppressed, no second notification is delivered.
C3_ReplaySuppressed ==
    \A h \in Slots : inv[h].everRecordedAtStart => ~Delivering(h)

\* C3, amended: a handling that starts while the triple is in sent_notifications
\* does not get past the triple check, as long as the row has not been removed
\* by the 7 day cleanup.
C3_ReplaySuppressedWhileRetained ==
    /\ \A h \in Slots :
           inv[h].recordedAtStart => inv[h].pc \in {"start", "getUser", "getSettings",
                                                    "incMatches", "checkTriple"}
    /\ Returned /\ returned.recordedAtStart
           => returned.outcome \in {"empty", "no user", "no settings", "no match",
                                    "duplicate triple"}

C3_Witness ==
    returned.recordedAtStart /\ returned.outcome = "duplicate triple"

\* the row an invocation inserts at its position
RowOf(h) ==
    IF inv[h].pc = "addNotif"
    THEN NotifRow(inv[h].userId, inv[h].ev.chatId, inv[h].ev.messageId)
    ELSE HashRow(inv[h].userId, createMessageHash(inv[h].ev.text))

\* C4: a row is inserted into the dedup stores only by an invocation whose
\* notification sendMessage has accepted, and it is that invocation's triple or
\* content hash; every other step (a suppression, a failed delivery, a user
\* without bot chat id) inserts nothing.
C4_RecordedOnlyAfterDelivery ==
    [][Len(dedupRows') > Len(dedupRows)
          => \E h \in Slots :
                 /\ inv[h].pc \in {"addNotif", "addHash"}
                 /\ inv'[h].pc # inv[h].pc
                 /\ Delivery(h) \in delivered
                 /\ dedupRows' = Append(dedupRows, RowOf(h))]_vars

C4_Witness ==
    /\ returned.outcome \in {"send failed", "retry failed"}
    /\ ~NotificationsExists(returned.userId, returned.ev.chatId, returned.ev.messageId)
    /\ ~MessageHashesExists(returned.userId, createMessageHash(returned.ev.text))

\* the hash check of invocation h is taken in this step
HashChecked(h) == inv[h].pc = "checkHash" /\ inv'[h].pc # "checkHash"

\* a notification with an equal text, by eq, was delivered to the user of h and
\* its content hash is in the retention window
RecordedLike(h, eq(_, _)) ==
    \E d \in delivered :
        /\ d.userId = inv[h].userId
        /\ eq(d.text, inv[h].ev.text)
        /\ MessageHashesExists(d.userId, createMessageHash(d.text))

SameNormalized(t1, t2) == normalizeText(t1) = normalizeText(t2)

SameLowercasedTrimmed(t1, t2) == Trim(ToLowerCase(t1)) = Trim(ToLowerCase(t2))

\* a notification with the same content hash was delivered to the user of h
\* and the hash is in the retention window
OwnRecord(h) == RecordedLike(h, LAMBDA t1, t2 : createMessageHash(t1) = createMessageHash(t2))

\* C5: the content hash check suppresses a message exactly when a notification
\* with the same text was delivered to the same user within the retention
\* window (from whichever chat); the record of another user does not suppress.
C5_HashKeyedPerUser ==
    [][\A h \in Slots :
           HashChecked(h) => (returned'.outcome = "duplicate hash" <=> OwnRecord(h))]_vars

C5_Witness ==
    \E h \in Slots :
        /\ inv[h].pc = "send"
        /\ ~HashRecorded(h)
        /\ \E d \in delivered :
               /\ d.userId # inv[h].userId
               /\ d.text = inv[h].ev.text
               /\ MessageHashesExists(d.userId, createMessageHash(d.text))

\* C6, as claimed: a message whose normalized text (Text Normalizer) equals
\* that of a notification recorded for the user is suppressed by the content
\* hash check.
C6_SameNormalizedSuppressed ==
    [][\A h \in Slots :
           HashChecked(h) /\ RecordedLike(h, SameNormalized)
               => returned'.outcome = "duplicate hash"]_vars

\* C6, amended: a message whose lowercased and trimmed text equals that of a
\* notification recorded for the user is suppressed by the content hash check.
C6_SameLowercasedTrimmedSuppressed ==
    [][\A h \in Slots :
           HashChecked(h) /\ RecordedLike(h, SameLowercasedTrimmed)
               => returned'.outcome = "duplicate hash"]_vars

C6_Witness ==
    /\ returned.outcome = "duplicate hash"
    /\ \E d \in delivered :
           /\ d.userId = returned.userId
           /\ d.text # returned.ev.text
           /\ SameLowercasedTrimmed(d.text, returned.ev.text)

\* C7: a message whose triple is recorded when it arrives is suppressed without
\* the match pipeline being invoked for it (the triple check precedes it).
C7_TripleBeforeMatch ==
    /\ \A h \in Slots : inv[h].recordedAtStart => inv[h].analyzeCalls = 0
    /\ returned.recordedAtStart => returned.analyzeCalls = 0

\* C8: a message whose text is empty or only whitespace is never delivered,
\* whatever the ruleset.
C8_BlankNeverDelivered ==
    \A d \in delivered : Trim(d.text) # <<>>

C10_RulesReadPerMessage ==
    /\ \A h \in Slots :
           inv[h].analyzeCalls > 0 /\ ~inv[h].rulesetEdited
               => inv[h].keywords = monitorSettings[inv[h].userId].keywords
    /\ Returned /\ returned.analyzeCalls > 0 /\ ~returned.rulesetEdited
           => returned.keywords = monitorSettings[returned.userId].keywords

C10_Witness ==
    \E h \in Slots :
        /\ inv[h].analyzeCalls > 0
        /\ ~inv[h].rulesetEdited
        /\ inv[h].keywords # inv[h].settingsSnapshot

(***************************************************************************)
(* Properties of the matcher                                               *)
(***************************************************************************)
\* the call of the pipeline has returned or thrown
PipelineDone == call.op \in {"analyze", "match"} /\ call.done

AnalyzeDone == call.op = "analyze" /\ call.done

\* the text and the keyword list the pipeline was called with
CallText == call.args[1]

CallKeywords == call.args[2]

\* C11: the match pipeline never raises: for every text and keyword list,
\* empty or absent ones included, analyze and match return a result, and for
\* an empty text or an empty keyword list the result is unmatched with empty
\* matchedKeywords and empty details.
C11_PipelineNeverRaises ==
    PipelineDone =>
        /\ call.result # TypeError
        /\ CallText = TextEmpty \/ CallKeywords = <<>> => call.result = Unmatched

\* analyze has returned a result
AnalyzeReturned == AnalyzeDone /\ call.result # TypeError

\* the normalized phrase of a raw keyword, its wrapping characters stripped
Phrase(keyword) == normalizeText(parseKeywordMode(keyword).cleanKeyword)

\* the raw keyword is reported in matchedKeywords
Reported(keyword) ==
    \E i \in 1..Len(call.result.matchedKeywords) : call.result.matchedKeywords[i] = keyword

\* C12: a keyword with malformed syntax, one whose phrase is empty after
\* stripping its wrapping characters and normalizing (a lone quote, an empty
\* pair of quotes, punctuation only), is never added to matchedKeywords,
\* whatever the message text.
C12_MalformedNeverMatched ==
    AnalyzeReturned =>
        \A i \in 1..Len(call.result.matchedKeywords) :
            Phrase(call.result.matchedKeywords[i]) # <<>>

\* C13: a MatchResult never contains a duplicate keyword: for any text and
\* any ruleset, also one that lists the same raw keyword more than once, each
\* raw keyword occurs at most once in matchedKeywords and at most once as the
\* keyword of an entry of the details.
C13_NoDuplicateKeyword ==
    AnalyzeReturned =>
        /\ \A i, j \in 1..Len(call.result.matchedKeywords) :
               i # j => call.result.matchedKeywords[i] # call.result.matchedKeywords[j]
        /\ \A i, j \in 1..Len(call.result.matchDetails) :
               i # j => call.result.matchDetails[i].keyword # call.result.matchDetails[j].keyword

ExactRule(keyword) == parseKeywordMode(keyword).isExact

\* every details entry of the keyword has the given match type
DetailsAre(keyword, type) ==
    \A j \in 1..Len(call.result.matchDetails) :
        call.result.matchDetails[j].keyword = keyword
            => call.result.matchDetails[j].matchType = type

\* each quoted keyword of the call is reported exactly when the normalized
\* text contains its normalized phrase, and then as "exact (strict)"
ExactRulesMatchContained ==
    \A i \in 1..Len(CallKeywords) :
        ExactRule(CallKeywords[i]) =>
            /\ Reported(CallKeywords[i])
                   <=> Includes(normalizeText(CallText), Phrase(CallKeywords[i]))
            /\ DetailsAre(CallKeywords[i], "exact (strict)")

\* C14 as stated: an Exact-mode (quoted) rule matches if and only if the
\* normalized message text contains the normalized phrase as a contiguous
\* substring, no other strategy is applied to it (words of the phrase that
\* are not adjacent in the text do not match), and a match always has
\* matchType exact (strict).
C14_ExactIffContained ==
    AnalyzeReturned => ExactRulesMatchContained

\* C14: for a message text that is not empty, an Exact-mode (quoted) rule
\* matches if and only if the normalized message text contains the
\* normalized phrase as a contiguous substring, and a match always has
\* matchType exact (strict); for an empty message text no rule matches.
C14_ExactIffContainedInText ==
    AnalyzeReturned =>
        IF CallText = TextEmpty THEN call.result = Unmatched
        ELSE ExactRulesMatchContained

\* a quoted rule with a phrase has matched a text that is written in
\* another case than the phrase is after normalization
C14_Witness ==
    /\ AnalyzeReturned
    /\ CallText # TextEmpty
    /\ \E i \in 1..Len(CallKeywords) :
           /\ ExactRule(CallKeywords[i])
           /\ Phrase(CallKeywords[i]) # <<>>
           /\ Phrase(CallKeywords[i]) # parseKeywordMode(CallKeywords[i]).cleanKeyword
           /\ Reported(CallKeywords[i])

\* the parts of a keyword (keywordParts of match)
PartsOf(keyword) == SelectSeq(Split(Phrase(keyword)), LAMBDA w : Len(w) > 1)

\* the tokens of the message: the words of the normalized text
TokensOf(text) == Split(normalizeText(text))

AllRequiredRule(keyword) ==
    parseKeywordMode(keyword).isAllRequired /\ Len(PartsOf(keyword)) > 1

\* the tokens and stems match works with
WordsOf(text) ==
    SelectSeq(TokensOf(text), LAMBDA w : Len(w) > 1 /\ w \notin stopWords)

StemsOf(text) == Map([i \in 1..Len(WordsOf(text)) |-> stem(WordsOf(text)[i])])

Resolved(part, text) == findWordInText(part, WordsOf(text), StemsOf(text)).found

\* C15: an AllRequired (bracketed) rule with two or more parts matches every
\* message that contains all of its parts as tokens, in any order and
\* position, and is not matched as soon as one part cannot be resolved in the
\* message.
C15_AllRequiredMatchesAllParts ==
    AnalyzeReturned =>
        \A i \in 1..Len(CallKeywords) :
            AllRequiredRule(CallKeywords[i]) =>
                /\ (\A p \in 1..Len(PartsOf(CallKeywords[i])) :
                        IndexOf(TokensOf(CallText), PartsOf(CallKeywords[i])[p]) # 0)
                       => Reported(CallKeywords[i])
                /\ (\E p \in 1..Len(PartsOf(CallKeywords[i])) :
                        ~Resolved(PartsOf(CallKeywords[i])[p], CallText))
                       => ~Reported(CallKeywords[i])

\* the keyword marketolog, and the tokens smm and marketologov
KeywordMarketer == <<"ru_m","ru_a","ru_r","ru_k","ru_ye","ru_t","ru_o","ru_l","ru_o","ru_g">>

TokenSmm == <<"s","m","m">>

TokenMarketers ==
    <<"ru_m","ru_a","ru_r","ru_k","ru_ye","ru_t","ru_o","ru_l","ru_o","ru_g","ru_o","ru_v">>

\* the keyword is reported, with every details entry of the given type
ReportedAs(keyword, type) == Reported(keyword) /\ DetailsAre(keyword, type)

\* C16: the Smart keyword marketolog matches a message containing smm, with
\* matchType synonym, and matches a message containing marketologov, with
\* matchType stem.
C16_SynonymAndStemExamples ==
    AnalyzeReturned =>
        \A i \in 1..Len(CallKeywords) :
            CallKeywords[i] = KeywordMarketer =>
                /\ IndexOf(TokensOf(CallText), TokenSmm) # 0
                       => ReportedAs(KeywordMarketer, "synonym")
                /\ IndexOf(TokensOf(CallText), TokenMarketers) # 0
                       => ReportedAs(KeywordMarketer, "stem")

SmartRule(keyword) == ~ExactRule(keyword) /\ ~AllRequiredRule(keyword)

\* some part of the keyword has at least four characters and a stem of at
\* least four characters that is the stem of a word of the text
StemEqual(keyword, text) ==
    \E p \in 1..Len(PartsOf(keyword)) :
        /\ Len(PartsOf(keyword)[p]) >= MinStemMatchLen
        /\ Len(stem(PartsOf(keyword)[p])) >= MinStemMatchLen
        /\ IndexOf(StemsOf(text), stem(PartsOf(keyword)[p])) # 0

LongPart(keyword) ==
    \E p \in 1..Len(PartsOf(keyword)) : Len(PartsOf(keyword)[p]) >= MinSynonymLen

\* C17: a keyword part shorter than 4 never triggers stem-based matching: a
\* Smart rule is reported with matchType stem only when one of its parts of
\* length >= 4 has a stem of length >= 4 equal to the stem of a word of the
\* message (equality, not containment), and with matchType synonym only when
\* one of its parts has length >= 4; a rule whose parts are all shorter is
\* reported with neither.
C17_ShortPartsNeverStem ==
    AnalyzeReturned =>
        \A j \in 1..Len(call.result.matchDetails) :
            SmartRule(call.result.matchDetails[j].keyword) =>
                /\ call.result.matchDetails[j].matchType = "stem"
                       => StemEqual(call.result.matchDetails[j].keyword, CallText)
                /\ call.result.matchDetails[j].matchType = "synonym"
                       => LongPart(call.result.matchDetails[j].keyword)

\* a rule was reported with matchType stem
C17_Witness ==
    /\ AnalyzeReturned
    /\ \E j \in 1..Len(call.result.matchDetails) :
           /\ SmartRule(call.result.matchDetails[j].keyword)
           /\ call.result.matchDetails[j].matchType = "stem"

\* a rule was reported with matchType synonym
SynonymReported ==
    /\ AnalyzeReturned
    /\ \E j \in 1..Len(call.result.matchDetails) :
           call.result.matchDetails[j].matchType = "synonym"

(***************************************************************************)
(* Properties of fuzzyMatch, normalizeText and parseKeywordMode            *)
(***************************************************************************)
FuzzyDone == call.op = "fuzzyMatch" /\ call.done

\* C18: fuzzy matching is symmetric: for all strings a, b and every
\* threshold t, fuzzyMatch(a, b, t) equals fuzzyMatch(b, a, t).
C18_FuzzySymmetric ==
    FuzzyDone => call.result = fuzzyMatch(call.args[2], call.args[1], call.args[3])

\* two words were found similar although neither contains the other and the
\* stem of the first does not contain the stem of the second
C18_Witness ==
    /\ FuzzyDone
    /\ call.result = TRUE
    /\ ~Includes(normalizeText(call.args[2]), normalizeText(call.args[1]))
    /\ ~Includes(normalizeText(call.args[1]), normalizeText(call.args[2]))
    /\ ~Includes(stem(normalizeText(call.args[1])), stem(normalizeText(call.args[2])))

NormalizeDone == call.op = "normalizeText" /\ call.done

\* the characters a normalized text is made of
NormalChars == LatinLower \cup Digits \cup {"_"} \cup CyrLower \cup {" "}

\* no upper case, no yo, nothing but word characters, letters and single
\* spaces, and no space at either end
IsNormal(s) ==
    /\ \A i \in 1..Len(s) :
           /\ s[i] \notin LatinUpper \cup CyrUpper \cup {"RU_YO", "ru_yo"}
           /\ s[i] \in NormalChars
    /\ \A i \in 1..(Len(s) - 1) : ~(s[i] = " " /\ s[i + 1] = " ")
    /\ s # <<>> => s[1] # " " /\ s[Len(s)] # " "

ParseDone == call.op = "parseKeywordMode" /\ call.done

Wrappers == {<<"\"", "\"">>, <<"laquo", "raquo">>, <<"'", "'">>}

\* the first and the last character are a pair of the given kind
Wrapped(trimmed, pairs) ==
    Len(trimmed) >= 2 /\ <<trimmed[1], trimmed[Len(trimmed)]>> \in pairs

\* one character is removed from each end
Unwrapped(trimmed, clean) ==
    Len(clean) = Len(trimmed) - 2 /\ clean = SubSeq(trimmed, 2, Len(trimmed) - 1)

\* C20: keyword rule parsing is total and every keyword has exactly one mode
\* (never two flags at once): Exact requires a matching pair of quotes as
\* first and last character, AllRequired requires [ first and ] last, any
\* other shape is Smart with the trimmed original text as phrase, and
\* exactly one wrapping character is removed from each end otherwise.
C20_ParseKeywordMode ==
    ParseDone =>
        /\ ~(call.result.isExact /\ call.result.isAllRequired)
        /\ call.result.isAllRequired <=> Wrapped(Trim(call.args[1]), {<<"[", "]">>})
        /\ call.result.isExact <=> Wrapped(Trim(call.args[1]), Wrappers)
        /\ IF call.result.isExact \/ call.result.isAllRequired
           THEN Unwrapped(Trim(call.args[1]), call.result.cleanKeyword)
           ELSE call.result.cleanKeyword = Trim(call.args[1])

(***************************************************************************)
(* Properties of formatNotification                                        *)
(***************************************************************************)
FormatDone == call.op = "formatNotification" /\ call.done

\* the fields of the data whose text comes from a user
UserFields == {"firstName", "username", "messageText", "chatTitle", "keyword", "matchedWord"}

\* each of the five characters has a backslash before it
IsEscaped(text) ==
    \A i \in 1..Len(text) : text[i] \in MarkdownChars => i > 1 /\ text[i - 1] = "\\"

\* C21: in the composed notification every user-controlled text field
\* (sender display name, sender handle, message body, chat title, and the
\* keyword and evidence text of each MatchDetail) is escaped: none of the
\* characters * _ [ ] ` taken from such a field appears in the output
\* without a preceding backslash.
C21_FieldsEscaped ==
    FormatDone =>
        /\ call.result = TextOf(NotificationPieces(call.args[1]))
        /\ \A i \in 1..Len(NotificationPieces(call.args[1])) :
               NotificationPieces(call.args[1])[i].from \in UserFields
                   => IsEscaped(NotificationPieces(call.args[1])[i].text)

(***************************************************************************)
(* Properties of the bot and of the monitoring                             *)
(***************************************************************************)
\* a handler of the bot has answered in the last step
BotReplied(what) == returned.pc = "bot" /\ returned.outcome \in what

\* C22: while the bot is awaiting a new keyword list from a user, the
\* /keywords command cancels the edit: when the command has been handled the
\* user is no longer in awaiting mode (so that the next plain text message
\* of that user does not overwrite the stored keywords).
C22_KeywordsCommandCancels ==
    BotReplied({"keywords shown", "settings not found"})
        => returned.userId \notin awaitingKeywords

GroupKinds == {"basic group", "megagroup"}

SmartTypes == <<"exact", "stem", "synonym", "fuzzy", "ngram">>

\* whether each strategy, taken alone, succeeds for the keyword on the text
Succeeds(keyword, text) ==
    <<Includes(normalizeText(text), Phrase(keyword)),
      MatchStem(PartsOf(keyword), WordsOf(text), StemsOf(text)).found,
      MatchSynonym(PartsOf(keyword), WordsOf(text), StemsOf(text)).found,
      MatchFuzzy(PartsOf(keyword), WordsOf(text)).found,
      NgramInText(getNgrams(normalizeText(text), Len(PartsOf(keyword))),
                  Join(PartsOf(keyword), <<" ">>)) # <<>>>>

\* the strategies that may be tried for the keyword: the n-grams only for a
\* keyword of more than one part
Tried(keyword) == IF Len(PartsOf(keyword)) > 1 THEN 1..5 ELSE 1..4

\* the first of the strategies tried that succeeds, 0 when there is none
FirstOf(succeeds, tried) ==
    IF \E n \in tried : succeeds[n]
    THEN CHOOSE n \in tried : succeeds[n] /\ \A m \in 1..(n - 1) : ~succeeds[m]
    ELSE 0

\* the earliest strategy that succeeds for the keyword on the text
Earliest(keyword, text) == FirstOf(Map(Succeeds(keyword, text)), Tried(keyword))

\* the details entries are as many as given and all of the strategy given
DetailsFrom(details, count, earliest, parts) ==
    /\ Len(details) = IF earliest = 0 THEN 0 ELSE count
    /\ \A j \in 1..Len(details) :
           /\ details[j].matchType = SmartTypes[earliest]
           /\ details[j].matchType = "ngram" => Len(parts) > 1

\* the details entries of the keyword
DetailsOf(keyword) ==
    SelectSeq(call.result.matchDetails, LAMBDA d : d.keyword = keyword)

\* the rules of the list that are the keyword
RulesOf(keyword) == SelectSeq(CallKeywords, LAMBDA k : k = keyword)

SmartCall == AnalyzeReturned /\ CallText # <<>> /\ CallKeywords # AbsentList

PartTypes == {"exact", "stem", "synonym"}

\* the match types an all-required match may then be annotated with
AllRequiredTypes ==
    {"all-required (" \o JoinTypes(ts) \o ")" :
        ts \in {t \in UNION {[1..n -> PartTypes] : n \in 1..3} :
                   \A a, b \in 1..Len(t) : a # b => t[a] # t[b]}}

\* C25: in the all-required mode a part is resolved only by an equal token,
\* an equal stem or the stem of a synonym: the match type of a reported
\* [bracketed] rule names no other sub-match type than exact, stem and
\* synonym.
C25_AllRequiredSubTypes ==
    SmartCall =>
        \A j \in 1..Len(call.result.matchDetails) :
            AllRequiredRule(call.result.matchDetails[j].keyword)
                => call.result.matchDetails[j].matchType \in AllRequiredTypes

(***************************************************************************)
(* Properties of getSynonyms and stem                                      *)
(***************************************************************************)
SynonymsDone == call.op = "getSynonyms" /\ call.done

\* one form equals, contains or is contained by the other
Related(a, b) == a = b \/ Includes(a, b) \/ Includes(b, a)

\* the normalized or stemmed form of the word is related to the normalized
\* or stemmed form of the key of the entry or of one of its values
EntryRelated(entry, word) ==
    \E a \in {normalizeText(word), stem(normalizeText(word))} :
        \E i \in 1..Len(ClassOf(entry)) : Related(a, ClassOf(entry)[i])

\* the forms that the entries related to the word may add
RelatedForms(word) ==
    UNION {{ClassOf(synonyms[n])[i] : i \in 1..Len(ClassOf(synonyms[n]))} :
              n \in {k \in 1..Len(synonyms) : EntryRelated(synonyms[k], word)}}

\* C26: getSynonyms adds the class of a dictionary entry only when the
\* normalized or stemmed form of the word equals, contains or is contained
\* by the normalized or stemmed form of the key or of a listed synonym:
\* every form returned is the word, its stem, or a form of such an entry.
C26_SynonymsByContainmentOnly ==
    SynonymsDone =>
        \A i \in 1..Len(call.result) :
            call.result[i] \in {normalizeText(call.args[1]), stem(normalizeText(call.args[1]))}
                                   \cup RelatedForms(call.args[1])

StemDone == call.op = "stem" /\ call.done

\* the suffixes of the table that the word ends with and whose removal
\* leaves at least two characters
Removable(word) ==
    {suffixList[i] : i \in {k \in 1..Len(suffixList) :
                               /\ EndsWithSeq(word, suffixList[k])
                               /\ Len(word) - Len(suffixList[k]) >= 2}}

\* the word without its last n characters
Without(word, n) == SubSeq(word, 1, Len(word) - n)

\* C27: stem returns a word shorter than four characters unchanged;
\* otherwise it removes the longest suffix of the table that the word ends
\* with and that leaves at least two characters, once, and returns the word
\* unchanged when there is none; the result is a non-empty prefix of the
\* word.
C27_StemLongestSuffix ==
    StemDone =>
        /\ Len(call.args[1]) < 4 => call.result = call.args[1]
        /\ Len(call.args[1]) >= 4 /\ Removable(call.args[1]) = {}
               => call.result = call.args[1]
        /\ Len(call.args[1]) >= 4 /\ Removable(call.args[1]) # {}
               => \E suffix \in Removable(call.args[1]) :
                      /\ \A other \in Removable(call.args[1]) : Len(other) <= Len(suffix)
                      /\ call.result = Without(call.args[1], Len(suffix))
        /\ call.result # <<>>
        /\ Len(call.result) <= Len(call.args[1])
        /\ call.result = SubSeq(call.args[1], 1, Len(call.result))

\* a word that ends with a suffix of one letter and with one of three has
\* lost the three
C27_Witness ==
    /\ StemDone
    /\ {Len(suffix) : suffix \in Removable(call.args[1])} = {1, 3}
    /\ call.result = Without(call.args[1], 3)

(***************************************************************************)
(* Properties of startMonitoring and stopMonitoring                        *)
(***************************************************************************)
\* C28: whatever the sequence of startMonitoring and stopMonitoring, at most
\* one new-message handler is registered on the client of a user.
C28_OneHandlerPerClient ==
    \A u \in DOMAIN eventHandlers : Len(eventHandlers[u]) <= 1

\* the last thing the bot did was to stop the monitoring of the user
Stopped(u) == BotReplied({"stopped"}) /\ returned.userId = u

\* C29: stopping is reversible: when the start button is pressed after the
\* monitoring of a user was stopped, and the folder is found, startMonitoring
\* succeeds and leaves the user active with a handler registered.
C29_StopIsReversible ==
    [][\A u \in DOMAIN users : \A folder \in Folders :
           Stopped(u) /\ folder.found /\ StartButton(u, folder)
               => /\ returned'.outcome = "started"
                  /\ users'[u].is_active
                  /\ u \in clients'
                  /\ eventHandlers'[u] # <<>>]_vars

(***************************************************************************)
(* Properties of the counters                                              *)
(***************************************************************************)
StatsOrdered ==
    /\ stats.notifications_sent <= stats.matches_found
    /\ stats.matches_found <= stats.messages_processed

\* the counter has been incremented in the step
Incremented(field) == stats'[field] # stats[field]

\* what a step may do to the counters: at most one of them goes up, by one;
\* messages_processed when an invocation starts, matches_found when an
\* invocation has matched, notifications_sent when an invocation whose
\* notification was delivered ends
StatsStep ==
    /\ \A field \in DOMAIN stats : stats'[field] \in {stats[field], stats[field] + 1}
    /\ Cardinality({field \in DOMAIN stats : Incremented(field)}) <= 1
    /\ Incremented("messages_processed")
           => \E h \in Slots : inv[h].pc = "start" /\ inv'[h].pc # "start"
    /\ Incremented("matches_found")
           => \E h \in Slots :
                  /\ inv[h].pc = "incMatches" /\ inv'[h].pc # "incMatches"
                  /\ MatchResults[inv[h].ev.text][inv[h].keywords].matched
    /\ Incremented("notifications_sent")
           => \E h \in Slots :
                  /\ inv[h].pc = "incSent" /\ inv'[h] = Idle
                  /\ inv[h].attempts \in {1, 2}
                  /\ Delivery(h) \in delivered

\* C30: in every reachable state, whatever the interleaving of the handlers,
\* notifications_sent <= matches_found <= messages_processed; and
\* messages_processed goes up once when an invocation starts, matches_found
\* once when it has matched, notifications_sent once, when the invocation
\* ends after a delivery that succeeded at the first attempt or at the retry.
C30_CountersOrdered == []StatsOrdered /\ [][StatsStep]_vars

\* two messages have been handled, an empty one among them, and one
\* notification has been sent, at the retry
C30_Witness ==
    /\ stats.messages_processed = 2
    /\ stats.matches_found = 1
    /\ stats.notifications_sent = 1
    /\ returned.pc = "done" /\ returned.outcome = "sent" /\ returned.attempts = 2
    /\ \E d \in delivered : TRUE

====
